---- MODULE Spec2Model ----
(***************************************************************************)
(* Cognify background service worker: the drift-detection engine.         *)
(*                                                                         *)
(* The model follows the current service worker (src/unnamed/part_001):   *)
(* domain classification, raw signal evaluation, the activity classifier, *)
(* the confirmation window, the hysteresis gate, the dwell override and   *)
(* the PRODUCTIVE->DISTRACTION edge trigger.                               *)
(*                                                                         *)
(* Time is Date.now() in whole seconds.  Every asynchronous function is   *)
(* cut at its awaits: the code between two awaits is one atomic action.   *)
(***************************************************************************)
EXTENDS Integers, Sequences, FiniteSets, TLC

VARIABLES
    now,                    \* Date.now(), in seconds
    today,                  \* new Date().toDateString()
    enabled,                \* state.enabled
    mode,                   \* state.mode
    tabSwitches,            \* state.tabSwitches
    isIdle,                 \* state.isIdle
    idleStartTime,          \* state.idleStartTime
    distractionScore,       \* state.distractionScore
    scoreDecaySecs,         \* seconds of half-life decay applied to it since it was assigned
    lastScoreDecay,         \* state.lastScoreDecay
    contentSignals,         \* state.contentSignals
    classificationHistory,  \* state.classificationHistory
    previousTabCategory,    \* state.previousTabCategory
    currentTabCategory,     \* state.currentTabCategory
    distractionDwellStart,  \* state.distractionDwellStart
    distractionTabId,       \* state.distractionTabId
    distractionActive,      \* state.distractionActive
    stats,                  \* state.stats
    customProductive,       \* customProductive (a Set of hostnames)
    customDistraction,      \* customDistraction (a Set of hostnames)
    storedStats,            \* chrome.storage.local: the 'stats' key
    storedCustom,           \* chrome.storage.local: the two custom list keys
    storedEnabled,          \* chrome.storage.local: the 'enabled' key
    storedMode,             \* chrome.storage.local: the 'focusMode' key
    storedKeys,             \* chrome.storage.local: the keys that are set
    cyclePc,                \* where the runScoringCycle invocation in flight is
    pendingGet,             \* tabId of the onActivated handler awaiting tabs.get
    triggers,               \* number of triggerDistraction() invocations so far
    streak,                 \* trailing run lengths of the classification sequence
    activations,            \* the times at which onActivated recorded a tab switch
    probeUrl,               \* last URL handed to classifyDomain directly
    probeResult,            \* what classifyDomain returned for it
    caArgs,                 \* last arguments handed to classifyActivity directly
    caLabel,                \* what classifyActivity returned for them
    tdArgs,                 \* the tabs a triggerDistraction call looked at
    tdResult,               \* what that call did
    tdMessage,              \* the DISTRACTION_DETECTED message that call sent
    rsResult,               \* the rawSignals object a scoring cycle would build
    overlapPc,              \* where a second runScoringCycle invocation stands
    legacy,                 \* the state object of the threshold-gated worker (background.js)
    away,                   \* the idle state chrome.idle reported last, and when the user left "active"
    page                    \* the content script of one tab (content.js)

vars == << now, today, enabled, mode, tabSwitches, isIdle, idleStartTime,
           distractionScore, scoreDecaySecs, lastScoreDecay, contentSignals, classificationHistory,
           previousTabCategory, currentTabCategory, distractionDwellStart,
           distractionTabId, distractionActive, stats, customProductive,
           customDistraction, storedStats, storedCustom, storedEnabled,
           storedMode, storedKeys, cyclePc, pendingGet,
           triggers, streak, activations, probeUrl, probeResult,
           caArgs, caLabel, tdArgs, tdResult, tdMessage, rsResult, overlapPc, legacy, away, page >>

\* JavaScript null for a timestamp, a tab id and a URL (tab.url undefined);
\* all three are falsy, as are the tab id 0 and the empty string <<>>
NoTime == -1
NoTab == 0
NoUrl == << "undefined" >>

\* ------------------------------------------------------------------------
\* Bounds of the model
\* ------------------------------------------------------------------------
\* the clock takes MaxTicks values, StepSecs apart
MaxTicks == 3
\* tab ids are 1..MaxTabs
MaxTabs == 1
\* tab activations recorded in state.tabSwitches at one time
MaxSwitches == 2
\* no new event is taken once this many distractions were counted
MaxDetected == 2
\* RESET_SESSION_STARTED messages accepted
MaxResets == 1

\* ------------------------------------------------------------------------
\* Mode thresholds
\* ------------------------------------------------------------------------
\* mutant: casual mode recovers at its drift threshold
ModeThresholdsNoGapMut ==
    [m \in {"deep-work", "research", "casual"} |->
        CASE m = "deep-work" ->
               [idleSecs |-> 15, tabSwitchPerMin |-> 2, driftSignals |-> 2, recoverySignals |-> 0]
          [] m = "research" ->
               [idleSecs |-> 45, tabSwitchPerMin |-> 8, driftSignals |-> 2, recoverySignals |-> 0]
          [] m = "casual" ->
               [idleSecs |-> 90, tabSwitchPerMin |-> 12, driftSignals |-> 2, recoverySignals |-> 2]]

MODE_THRESHOLDS ==
    [m \in {"deep-work", "research", "casual"} |->
        CASE m = "deep-work" ->
               [idleSecs |-> 15, tabSwitchPerMin |-> 2, driftSignals |-> 2, recoverySignals |-> 0]
          [] m = "research" ->
               [idleSecs |-> 45, tabSwitchPerMin |-> 8, driftSignals |-> 2, recoverySignals |-> 0]
          [] m = "casual" ->
               [idleSecs |-> 90, tabSwitchPerMin |-> 12, driftSignals |-> 2, recoverySignals |-> 0]]

\* MODE_THRESHOLDS[state.mode] || MODE_THRESHOLDS['deep-work']
ThresholdsOf(m) ==
    IF m \in DOMAIN MODE_THRESHOLDS THEN MODE_THRESHOLDS[m]
    ELSE MODE_THRESHOLDS["deep-work"]

\* ------------------------------------------------------------------------
\* Domain classification
\* ------------------------------------------------------------------------
\* A hostname is the sequence of its dot-separated labels.
BUILTIN_PRODUCTIVE ==
    { <<"coursera", "org">>, <<"udemy", "com">>, <<"khanacademy", "org">>,
      <<"edx", "org">>, <<"brilliant", "org">>, <<"skillshare", "com">>,
      <<"pluralsight", "com">>, <<"duolingo", "com">>,
      <<"scholar", "google", "com">>, <<"wikipedia", "org">>, <<"arxiv", "org">>,
      <<"pubmed", "ncbi", "nlm", "nih", "gov">>, <<"jstor", "org">>,
      <<"researchgate", "net">>, <<"semanticscholar", "org">>,
      <<"sciencedirect", "com">>, <<"springer", "com">>, <<"nature", "com">>,
      <<"ieee", "org">>, <<"acm", "org">>, <<"github", "com">>,
      <<"stackoverflow", "com">>, <<"developer", "mozilla", "org">>,
      <<"docs", "microsoft", "com">>, <<"devdocs", "io">>, <<"w3schools", "com">>,
      <<"leetcode", "com">>, <<"hackerrank", "com">>, <<"codepen", "io">>,
      <<"replit", "com">>, <<"codesandbox", "io">>, <<"vercel", "com">>,
      <<"netlify", "com">>, <<"notion", "so">>, <<"obsidian", "md">>,
      <<"roamresearch", "com">>, <<"trello", "com">>,
      <<"jira", "atlassian", "com">>, <<"figma", "com">>, <<"miro", "com">>,
      <<"docs", "google", "com">>, <<"drive", "google", "com">>,
      <<"slides", "google", "com">>, <<"bbc", "com">>, <<"reuters", "com">>,
      <<"apnews", "com">>, <<"theguardian", "com">> }

BUILTIN_DISTRACTION ==
    { <<"instagram", "com">>, <<"facebook", "com">>, <<"twitter", "com">>,
      <<"x", "com">>, <<"threads", "net">>, <<"snapchat", "com">>,
      <<"tiktok", "com">>, <<"tumblr", "com">>, <<"pinterest", "com">>,
      <<"bereal", "com">>, <<"youtube", "com">>, <<"twitch", "tv">>,
      <<"netflix", "com">>, <<"primevideo", "com">>, <<"disneyplus", "com">>,
      <<"hulu", "com">>, <<"hbomax", "com">>, <<"peacocktv", "com">>,
      <<"crunchyroll", "com">>, <<"dailymotion", "com">>, <<"reddit", "com">>,
      <<"9gag", "com">>, <<"ifunny", "co">>, <<"buzzfeed", "com">>,
      <<"boredpanda", "com">>, <<"store", "steampowered", "com">>,
      <<"ign", "com">>, <<"gamespot", "com">>, <<"whatsapp", "com">>,
      <<"web", "telegram", "org">>, <<"discord", "com">> }

\* the suffixes of the "Academic TLDs" rule, as label sequences
ACADEMIC_SUFFIXES == { <<"edu">>, <<"ac", "in">>, <<"ac", "uk">>, <<"gov">> }

\* A URL string is a sequence of tokens: scheme, "://", host labels separated
\* by ".", then "/" and path tokens.  <<>> is the empty string.
Schemes == {"https", "http", "chrome", "edge", "file"}

\* the URL parser lower-cases the host
LowerCase(t) ==
    CASE t = "WWW" -> "www"
      [] t = "YouTube" -> "youtube"
      [] t = "Coursera" -> "coursera"
      [] OTHER -> t

\* index of the first "/" at or after position 3, or Len(u) + 1
HostEnd(u) ==
    IF \E i \in 3..Len(u) : u[i] = "/"
    THEN CHOOSE i \in 3..Len(u) : u[i] = "/" /\ \A j \in 3..(i - 1) : u[j] # "/"
    ELSE Len(u) + 1

\* new URL(url) succeeds: a known scheme, "://", then label ("." label)*
UrlParses(u) ==
    /\ u # NoUrl
    /\ Len(u) >= 2
    /\ \/ /\ u[1] \in Schemes
          /\ u[2] = "://"
          /\ LET e == HostEnd(u)
             IN  /\ e > 3
                 /\ (e - 3) % 2 = 1
                 /\ \A i \in 3..(e - 1) : (u[i] = ".") <=> ((i - 3) % 2 = 1)
       \/ /\ u[1] = "about"
          /\ u[2] = ":"

\* new URL(url).hostname, as labels; an opaque URL (about:blank) has none
UrlHostname(u) ==
    IF u[2] = "://"
    THEN LET e == HostEnd(u)
             n == (e - 3 + 1) \div 2
         IN  [k \in 1..n |-> LowerCase(u[3 + 2 * (k - 1)])]
    ELSE <<>>

\* host.replace(/^www\./, '')
StripWww(h) == IF Len(h) >= 2 /\ h[1] = "www" THEN Tail(h) ELSE h

\* host.endsWith('.' + d): d is a proper suffix of host on a label boundary
EndsWithDot(h, d) ==
    /\ Len(h) > Len(d)
    /\ \A k \in 1..Len(d) : h[Len(h) - Len(d) + k] = d[k]

\* the rules of classifyDomain on the extracted host, without the catch
ClassifyHostNoCustomMut(host, cProd, cDist) ==
    IF host \in BUILTIN_DISTRACTION THEN "DISTRACTION"
    ELSE IF \E d \in BUILTIN_PRODUCTIVE : host = d \/ EndsWithDot(host, d) THEN "PRODUCTIVE"
    ELSE IF host \in cDist THEN "DISTRACTION"
    ELSE IF host \in cProd THEN "PRODUCTIVE"
    ELSE IF \E s \in ACADEMIC_SUFFIXES : EndsWithDot(host, s) THEN "PRODUCTIVE"
    ELSE "UNKNOWN"

\* mutant: the built-in distraction list also matches subdomains
ClassifyHostSubdomainMut(host, cProd, cDist) ==
    LET listed ==
            IF host \in cDist THEN "DISTRACTION"
            ELSE IF host \in cProd THEN "PRODUCTIVE"
            ELSE IF \E d \in BUILTIN_DISTRACTION : host = d \/ EndsWithDot(host, d)
                 THEN "DISTRACTION"
            ELSE IF \E d \in BUILTIN_PRODUCTIVE : host = d \/ EndsWithDot(host, d)
                 THEN "PRODUCTIVE"
            ELSE "UNKNOWN"
    IN  IF listed = "UNKNOWN" /\ \E s \in ACADEMIC_SUFFIXES : EndsWithDot(host, s)
        THEN "PRODUCTIVE"
        ELSE listed

ClassifyHost(host, cProd, cDist) ==
    LET listed ==
            IF host \in cDist THEN "DISTRACTION"
            ELSE IF host \in cProd THEN "PRODUCTIVE"
            ELSE IF host \in BUILTIN_DISTRACTION THEN "DISTRACTION"
            ELSE IF \E d \in BUILTIN_PRODUCTIVE : host = d \/ EndsWithDot(host, d)
                 THEN "PRODUCTIVE"
            ELSE "UNKNOWN"
    IN  IF listed = "UNKNOWN" /\ \E s \in ACADEMIC_SUFFIXES : EndsWithDot(host, s)
        THEN "PRODUCTIVE"
        ELSE listed

\* mutant: the try block without its catch
ClassifyDomainNoCatchMut(url, cProd, cDist) ==
    IF url = NoUrl \/ url = <<>> THEN "UNKNOWN"
    ELSE IF ~UrlParses(url) THEN "THROWN"
    ELSE ClassifyHost(StripWww(UrlHostname(url)), cProd, cDist)

\* classifyDomain(url) with the custom lists it reads; "THROWN" would be an
\* exception leaving the function
ClassifyDomain(url, cProd, cDist) ==
    IF url = NoUrl \/ url = <<>> THEN "UNKNOWN"
    ELSE IF ~UrlParses(url) THEN "UNKNOWN"
    ELSE ClassifyHost(StripWww(UrlHostname(url)), cProd, cDist)

\* ------------------------------------------------------------------------
\* Program constants
\* ------------------------------------------------------------------------
\* The granularity of the clock: the idle detection interval, 15 s.  Every
\* time threshold of the engine (15, 30, 45, 60 and 90 s) is a multiple of it.
StepSecs == 15
DISTRACTION_DWELL_SECS == 30
CONFIRM_CYCLES == 2
\* the trailing window of tab switches: Date.now() - 60000
SwitchWindowSecs == 60
\* backspaceRatio > 0.25, as a percentage
BackspacePctLimit == 25
\* mouseJitter > 5
JitterLimit == 5
\* scrollVelocity < 150 is a reading scroll, > 600 an aimless one
ReadingVelocity == 150
AimlessVelocity == 600
\* Math.min(10, rawScore)
ScoreCap == 10

\* new Date().toDateString()
\* the day the service worker is first seen on, and the day after it
FirstDay == "day1"
NextDay == "day2"
Today == today

Min(a, b) == IF a < b THEN a ELSE b

\* ------------------------------------------------------------------------
\* Signal evaluation
\* ------------------------------------------------------------------------
\* mutant: a timestamp exactly on the cutoff is kept
FilterRecentInclusiveMut(ts, cutoff) == SelectSeq(ts, LAMBDA t : t >= cutoff)

\* state.tabSwitches.filter(t => t > cutoff)
FilterRecent(ts, cutoff) == SelectSeq(ts, LAMBDA t : t > cutoff)

\* (state.isIdle && state.idleStartTime) ? (Date.now() - idleStartTime) / 1000 : 0
IdleSecsAt(t, idle, start) ==
    IF idle /\ start # NoTime /\ start # 0 THEN t - start ELSE 0

\* mutant: the content thresholds are inclusive
RawSignalsInclusiveMut(t, ts, idle, start, cs, th) ==
    [ idle      |-> IdleSecsAt(t, idle, start) >= th.idleSecs,
      tabSwitch |-> Len(FilterRecent(ts, t - SwitchWindowSecs)) >= th.tabSwitchPerMin,
      backspace |-> cs.backspaceRatio >= BackspacePctLimit,
      jitter    |-> cs.mouseJitter >= JitterLimit ]

\* Step 1 of runScoringCycle: the four raw signals
RawSignals(t, ts, idle, start, cs, th) ==
    [ idle      |-> IdleSecsAt(t, idle, start) >= th.idleSecs,
      tabSwitch |-> Len(FilterRecent(ts, t - SwitchWindowSecs)) >= th.tabSwitchPerMin,
      backspace |-> cs.backspaceRatio > BackspacePctLimit,
      jitter    |-> cs.mouseJitter > JitterLimit ]

\* Object.values(s).filter(Boolean).length
CountTrue(s) ==
    (IF s.idle THEN 1 ELSE 0) + (IF s.tabSwitch THEN 1 ELSE 0)
    + (IF s.backspace THEN 1 ELSE 0) + (IF s.jitter THEN 1 ELSE 0)

\* mutant: every signal weighs 3
RawScoreFlatMut(s) == 3 * CountTrue(s)

\* the display score: weights idle 2, tabSwitch 3, backspace 2, jitter 3
RawScore(s) ==
    (IF s.idle THEN 2 ELSE 0) + (IF s.tabSwitch THEN 3 ELSE 0)
    + (IF s.backspace THEN 2 ELSE 0) + (IF s.jitter THEN 3 ELSE 0)

\* ------------------------------------------------------------------------
\* Activity classifier
\* ------------------------------------------------------------------------
\* mutant: velocity > 600 with tabSwitch adds nothing to the tally
ClassifyBehaviourNoAimlessMut(rawSignals, context, thresholds) ==
    LET s1 == IF context.isTypingRecently
              THEN [rawSignals EXCEPT !.idle = FALSE, !.jitter = FALSE]
              ELSE rawSignals
        s  == IF context.isScrollingRecently /\ context.scrollVelocity < ReadingVelocity
              THEN [s1 EXCEPT !.idle = FALSE]
              ELSE s1
        activeCount == CountTrue(s)
    IN  IF context.isTypingRecently /\ ~s.tabSwitch /\ ~s.backspace THEN "DEEP_FOCUS"
        ELSE IF context.isScrollingRecently /\ context.scrollVelocity < ReadingVelocity
                /\ ~s.tabSwitch THEN "READING"
        ELSE IF context.isTypingRecently /\ s.backspace THEN "WORKING"
        ELSE IF activeCount >= thresholds.driftSignals THEN "DISTRACTED"
        ELSE IF activeCount = 1 THEN "UNCERTAIN"
        ELSE "FOCUSED"

\* mutant: recent typing suppresses idle but not jitter
ClassifyBehaviourKeepJitterMut(rawSignals, context, thresholds) ==
    LET s1 == IF context.isTypingRecently
              THEN [rawSignals EXCEPT !.idle = FALSE]
              ELSE rawSignals
        s  == IF context.isScrollingRecently /\ context.scrollVelocity < ReadingVelocity
              THEN [s1 EXCEPT !.idle = FALSE]
              ELSE s1
        aimlessBrowsing == context.scrollVelocity > AimlessVelocity /\ s.tabSwitch
        activeCount == CountTrue(s) + (IF aimlessBrowsing THEN 1 ELSE 0)
    IN  IF context.isTypingRecently /\ ~s.tabSwitch /\ ~s.backspace THEN "DEEP_FOCUS"
        ELSE IF context.isScrollingRecently /\ context.scrollVelocity < ReadingVelocity
                /\ ~s.tabSwitch THEN "READING"
        ELSE IF context.isTypingRecently /\ s.backspace THEN "WORKING"
        ELSE IF activeCount >= thresholds.driftSignals THEN "DISTRACTED"
        ELSE IF activeCount = 1 THEN "UNCERTAIN"
        ELSE "FOCUSED"

\* const s = { ...rawSignals }: the suppression writes to a copy, the object
\* the caller passed holds afterwards what it held before
RawSignalsAfter(rawSignals, context) == rawSignals

\* the behavioural analysis of classifyActivity, for a page that is neither
\* a distraction nor a safe zone
ClassifyBehaviour(rawSignals, context, thresholds) ==
    LET s1 == IF context.isTypingRecently
              THEN [rawSignals EXCEPT !.idle = FALSE, !.jitter = FALSE]
              ELSE rawSignals
        s  == IF context.isScrollingRecently /\ context.scrollVelocity < ReadingVelocity
              THEN [s1 EXCEPT !.idle = FALSE]
              ELSE s1
        aimlessBrowsing == context.scrollVelocity > AimlessVelocity /\ s.tabSwitch
        activeCount == CountTrue(s) + (IF aimlessBrowsing THEN 1 ELSE 0)
    IN  IF context.isTypingRecently /\ ~s.tabSwitch /\ ~s.backspace THEN "DEEP_FOCUS"
        ELSE IF context.isScrollingRecently /\ context.scrollVelocity < ReadingVelocity
                /\ ~s.tabSwitch THEN "READING"
        ELSE IF context.isTypingRecently /\ s.backspace THEN "WORKING"
        ELSE IF activeCount >= thresholds.driftSignals THEN "DISTRACTED"
        ELSE IF activeCount = 1 THEN "UNCERTAIN"
        ELSE "FOCUSED"

\* mutant: the safe-zone pre-check is missing
ClassifyActivityNoSafeZoneMut(rawSignals, context, thresholds, currentCategory) ==
    IF currentCategory = "DISTRACTION" THEN "DISTRACTED"
    ELSE ClassifyBehaviour(rawSignals, context, thresholds)

\* mutant: a page counts as distracted one signal early
ClassifyActivityEarlyMut(rawSignals, context, thresholds, currentCategory) ==
    IF currentCategory = "DISTRACTION" THEN "DISTRACTED"
    ELSE IF currentCategory = "PRODUCTIVE" THEN "FOCUSED"
    ELSE ClassifyBehaviour(rawSignals, context,
                           [thresholds EXCEPT !.driftSignals = @ + 1])

\* mutant: a page counts as distracted on a single active signal
ClassifyActivityLaxMut(rawSignals, context, thresholds, currentCategory) ==
    IF currentCategory = "DISTRACTION" THEN "DISTRACTED"
    ELSE IF currentCategory = "PRODUCTIVE" THEN "FOCUSED"
    ELSE ClassifyBehaviour(rawSignals, context,
                           [thresholds EXCEPT !.driftSignals = @ - 1])

\* mutant: recent typing is looked at before the category
ClassifyActivityTypingFirstMut(rawSignals, context, thresholds, currentCategory) ==
    IF context.isTypingRecently THEN ClassifyBehaviour(rawSignals, context, thresholds)
    ELSE IF currentCategory = "DISTRACTION" THEN "DISTRACTED"
    ELSE IF currentCategory = "PRODUCTIVE" THEN "FOCUSED"
    ELSE ClassifyBehaviour(rawSignals, context, thresholds)

classifyActivity(rawSignals, context, thresholds, currentCategory) ==
    IF currentCategory = "DISTRACTION" THEN "DISTRACTED"
    ELSE IF currentCategory = "PRODUCTIVE" THEN "FOCUSED"
    ELSE ClassifyBehaviour(rawSignals, context, thresholds)

\* ------------------------------------------------------------------------
\* Confirmation window
\* ------------------------------------------------------------------------
\* mutant: the oldest entry is never evicted
PushWindowNoShiftMut(h, c) == Append(h, c)

\* push, then shift when over capacity
PushWindow(h, c) ==
    LET p == Append(h, c)
    IN  IF Len(p) > CONFIRM_CYCLES THEN Tail(p) ELSE p

\* mutant: the window need not be full
ConfirmedDistractedAnyLenMut(h) ==
    \A i \in 1..Len(h) : h[i] = "DISTRACTED"

ConfirmedDistracted(h) ==
    /\ Len(h) = CONFIRM_CYCLES
    /\ \A i \in 1..Len(h) : h[i] = "DISTRACTED"

\* mutant: a recovery needs a full window
ConfirmedRecoveredFullMut(h) ==
    /\ Len(h) = CONFIRM_CYCLES
    /\ \A i \in 1..Len(h) : h[i] # "DISTRACTED"

ConfirmedRecovered(h) ==
    \A i \in 1..Len(h) : h[i] # "DISTRACTED"

\* mutant: the recovery keeps the window
RecoveredWindowKeepMut(h) == h

\* the window a recovery leaves: state.classificationHistory = []
RecoveredWindow(h) == << >>

\* ------------------------------------------------------------------------
\* Dwell override
\* ------------------------------------------------------------------------
\* mutant: the dwell override is missing
DwellFiresNeverMut(t, dwellStart, active) == FALSE

\* mutant: the override also wants a positive display score
DwellFiresScoreMut(t, dwellStart, active) ==
    /\ dwellStart # NoTime /\ dwellStart # 0
    /\ ~active
    /\ t - dwellStart >= DISTRACTION_DWELL_SECS
    /\ distractionScore > 0

DwellFires(t, dwellStart, active) ==
    /\ dwellStart # NoTime /\ dwellStart # 0
    /\ ~active
    /\ t - dwellStart >= DISTRACTION_DWELL_SECS

\* ------------------------------------------------------------------------
\* Inputs of the environment
\* ------------------------------------------------------------------------
TabIds == 1..MaxTabs
\* the tabs a trigger can target: the engine's and one it has not seen
TriggerTabIds == 1..(MaxTabs + 1)
\* what chrome.tabs.get finds: no such tab (it rejects), or a tab and its url
ClosedTab == [ exists |-> FALSE, url |-> NoUrl ]
MaxTime == StepSecs * MaxTicks

\* URLs a tab shows while the engine runs
UrlProductive == << "https", "://", "www", ".", "coursera", ".", "org", "/", "learn" >>
UrlDistraction == << "https", "://", "www", ".", "youtube", ".", "com", "/", "watch" >>
UrlUnknown == << "https", "://", "example", ".", "com" >>
EngineUrls == { UrlProductive, UrlDistraction, UrlUnknown, << >> }

\* modes a SET_MODE message carries
SentModes == { "deep-work", "casual" }

\* CONTENT_SIGNALS snapshots: a quiet page, erratic input, erratic input
\* while typing
QuietSignals ==
    [ backspaceRatio |-> 0, mouseJitter |-> 0, scrollVelocity |-> 0,
      isTypingRecently |-> FALSE, isScrollingRecently |-> FALSE ]
ErraticSignals ==
    [ backspaceRatio |-> 30, mouseJitter |-> 6, scrollVelocity |-> 0,
      isTypingRecently |-> FALSE, isScrollingRecently |-> FALSE ]
TypingSignals ==
    [ backspaceRatio |-> 30, mouseJitter |-> 6, scrollVelocity |-> 0,
      isTypingRecently |-> TRUE, isScrollingRecently |-> FALSE ]
ContentMessages == { QuietSignals, ErraticSignals, TypingSignals }

\* ------------------------------------------------------------------------
\* Initial state: the module-level state after init() on a profile whose
\* storage keys hold the defaults
\* ------------------------------------------------------------------------
InitialStats ==
    [ date |-> Today, distractionsDetected |-> 0, resetSessions |-> 0,
      totalIdleSeconds |-> 0 ]

\* the module-level state as the declarations leave it
InitMemory ==
    /\ today = FirstDay
    /\ now = StepSecs
    /\ enabled = TRUE
    /\ mode = "deep-work"
    /\ tabSwitches = << >>
    /\ isIdle = FALSE
    /\ idleStartTime = NoTime
    /\ distractionScore = 0
    /\ scoreDecaySecs = 0
    /\ lastScoreDecay = StepSecs
    /\ contentSignals = QuietSignals
    /\ classificationHistory = << >>
    /\ previousTabCategory = "UNKNOWN"
    /\ currentTabCategory = "UNKNOWN"
    /\ distractionDwellStart = NoTime
    /\ distractionTabId = NoTab
    /\ distractionActive = FALSE
    /\ stats = InitialStats
    /\ cyclePc = "idle"
    /\ overlapPc = "idle"
    /\ pendingGet = NoTab
    /\ triggers = 0
    /\ streak = [d |-> 0, n |-> 0]
    /\ activations = << >>
    /\ probeUrl = << >>
    /\ probeResult = "UNKNOWN"

InitEngine ==
    /\ InitMemory
    /\ storedStats = InitialStats
    /\ storedEnabled = TRUE
    /\ storedMode = "deep-work"

\* the keys init() and loadCustomDomains() read from chrome.storage.local
StorageKeys == { "enabled", "focusMode", "stats", "customProductive", "customDistraction" }

\* the arguments of a classifyActivity call on a quiet UNKNOWN page
QuietArgs ==
    [ rawSignals |-> [idle |-> FALSE, tabSwitch |-> FALSE, backspace |-> FALSE, jitter |-> FALSE],
      context |-> [isTypingRecently |-> FALSE, isScrollingRecently |-> FALSE, scrollVelocity |-> 0],
      thresholds |-> MODE_THRESHOLDS["deep-work"],
      currentCategory |-> "UNKNOWN" ]

\* no chrome.tabs.sendMessage was made
NoMessage == [ to |-> NoTab, mode |-> "none" ]

\* no triggerDistraction call has been looked at: no tab is open
\* The threshold-gated worker of background.js: its thresholds and the state
\* object it starts from.  flips and cycles are history counters: the changes
\* of distractionActive and the scoring cycles run since the signal count, the
\* mode or the enabled flag last changed.
LegacyModeThresholds ==
    [m \in {"deep-work", "research", "casual"} |->
        CASE m = "deep-work" ->
               [idleSecs |-> 15, tabSwitchPerMin |-> 2, driftSignals |-> 2, recoverySignals |-> 0]
          [] m = "research" ->
               [idleSecs |-> 45, tabSwitchPerMin |-> 8, driftSignals |-> 2, recoverySignals |-> 0]
          [] m = "casual" ->
               [idleSecs |-> 90, tabSwitchPerMin |-> 12, driftSignals |-> 2, recoverySignals |-> 0]]

LegacyState ==
    [ enabled |-> TRUE, mode |-> "deep-work",
      signals |-> [idle |-> FALSE, tabSwitch |-> FALSE, backspace |-> FALSE, jitter |-> FALSE],
      distractionScore |-> 0, distractionActive |-> FALSE, distractionsDetected |-> 0,
      flips |-> 0, cycles |-> 0 ]

\* The content script as it is loaded into a tab: nothing injected, no timer.
\* countdowns holds secondsLeft of every reset countdown whose setInterval is
\* still running, the newest last; closeTab tells that CLOSE_TAB was sent;
\* cleared tells that clearDistractionUI ran, by another way than the end or
\* the skip of a countdown, after the last reset session was started.
PageState ==
    [ enabled |-> TRUE, uiInjected |-> FALSE, grayscaleStyle |-> FALSE, notifStyle |-> FALSE,
      bannerEl |-> FALSE, overlayEl |-> FALSE, autoClearTimer |-> FALSE,
      countdowns |-> << >>, closeTab |-> FALSE, cleared |-> FALSE ]

NoTabs == [ activeTab |-> NoTab, tabs |-> [ t \in TriggerTabIds |-> ClosedTab ] ]
InitTrigger ==
    /\ tdArgs = NoTabs
    /\ tdResult = "NONE"
    /\ tdMessage = NoMessage
    /\ rsResult = QuietArgs.rawSignals
    /\ legacy = LegacyState
    /\ away = [state |-> "active", since |-> NoTime]
    /\ page = PageState

InitAux ==
    /\ storedKeys = StorageKeys
    /\ caArgs = QuietArgs
    /\ caLabel = "FOCUSED"
    /\ InitTrigger

Init ==
    /\ InitEngine
    /\ InitAux
    /\ customProductive = {}
    /\ customDistraction = {}
    /\ storedCustom = [customProductive |-> {}, customDistraction |-> {}]

\* variables only the classifyDomain probes and the custom lists touch
domainVars == << customProductive, customDistraction, storedCustom, probeUrl, probeResult >>
\* chrome.storage keys other than stats
prefVars == << storedEnabled, storedMode >>
\* the classification sequence
seqVars == << streak, activations >>
\* the session state, its persisted copy and the handlers' positions
engineVars == << now, enabled, mode, tabSwitches, isIdle, idleStartTime,
                 distractionScore, scoreDecaySecs, contentSignals, classificationHistory,
                 previousTabCategory, currentTabCategory, distractionDwellStart,
                 distractionTabId, distractionActive, stats, storedStats, cyclePc,
                 pendingGet, triggers >>
\* variables the engine's handlers leave alone
\* what the direct calls of classifyActivity and triggerDistraction record
probeVars == << caArgs, caLabel, tdArgs, tdResult, tdMessage, rsResult, legacy, away, page >>
auxVars == << probeVars, lastScoreDecay, storedKeys, today, overlapPc >>

\* no new event is taken once the counters reached their bounds
Budget == stats.distractionsDetected < MaxDetected

\* ------------------------------------------------------------------------
\* saveStats and the entry into the distracted state
\* ------------------------------------------------------------------------
\* mutant: the counter is not incremented
CountedStatsNoIncMut(st) == [st EXCEPT !.date = Today]

\* state.stats after distractionsDetected++ and the date stamp of saveStats
CountedStats(st) ==
    [st EXCEPT !.distractionsDetected = @ + 1, !.date = Today]

\* ------------------------------------------------------------------------
\* Tab tracking
\* ------------------------------------------------------------------------
\* mutant: the immediate trigger fires from any previous category
EdgeFiresAnyMut(wasProductive, active) == ~active

EdgeFires(wasProductive, active) == wasProductive /\ ~active

\* mutant: an observation that keeps the category DISTRACTION restarts the
\* dwell timer
UpdateTabCategoryRestartMut(tabId, url) ==
    LET newCategory == ClassifyDomain(url, customProductive, customDistraction)
        wasProductive == currentTabCategory = "PRODUCTIVE"
    IN  IF url = NoUrl \/ url = << >>
        THEN UNCHANGED << previousTabCategory, currentTabCategory, distractionDwellStart,
                          distractionTabId, distractionActive, stats, storedStats, triggers >>
        ELSE IF newCategory # currentTabCategory
        THEN /\ previousTabCategory' = currentTabCategory
             /\ currentTabCategory' = newCategory
             /\ IF newCategory = "DISTRACTION"
                THEN /\ distractionDwellStart' = now
                     /\ distractionTabId' = tabId
                     /\ IF EdgeFires(wasProductive, distractionActive)
                        THEN /\ distractionActive' = TRUE
                             /\ stats' = CountedStats(stats)
                             /\ storedStats' = stats'
                             /\ triggers' = triggers + 1
                        ELSE UNCHANGED << distractionActive, stats, storedStats, triggers >>
                ELSE /\ distractionDwellStart' = NoTime
                     /\ UNCHANGED << distractionTabId, distractionActive, stats,
                                     storedStats, triggers >>
        ELSE /\ distractionTabId' = IF newCategory = "DISTRACTION" THEN tabId
                                    ELSE distractionTabId
             /\ distractionDwellStart' = IF newCategory = "DISTRACTION" THEN now
                                         ELSE distractionDwellStart
             /\ UNCHANGED << previousTabCategory, currentTabCategory,
                             distractionActive, stats, storedStats, triggers >>

\* updateTabCategory(tabId, url); it runs to its end without yielding
UpdateTabCategory(tabId, url) ==
    LET newCategory == ClassifyDomain(url, customProductive, customDistraction)
        wasProductive == currentTabCategory = "PRODUCTIVE"
    IN  IF url = NoUrl \/ url = << >>
        THEN UNCHANGED << previousTabCategory, currentTabCategory, distractionDwellStart,
                          distractionTabId, distractionActive, stats, storedStats, triggers >>
        ELSE IF newCategory # currentTabCategory
        THEN /\ previousTabCategory' = currentTabCategory
             /\ currentTabCategory' = newCategory
             /\ IF newCategory = "DISTRACTION"
                THEN /\ distractionDwellStart' = now
                     /\ distractionTabId' = tabId
                     /\ IF EdgeFires(wasProductive, distractionActive)
                        THEN /\ distractionActive' = TRUE
                             /\ stats' = CountedStats(stats)
                             /\ storedStats' = stats'
                             /\ triggers' = triggers + 1
                        ELSE UNCHANGED << distractionActive, stats, storedStats, triggers >>
                ELSE /\ distractionDwellStart' = NoTime
                     /\ UNCHANGED << distractionTabId, distractionActive, stats,
                                     storedStats, triggers >>
        ELSE /\ distractionTabId' = IF newCategory = "DISTRACTION" THEN tabId
                                    ELSE distractionTabId
             /\ UNCHANGED << previousTabCategory, currentTabCategory, distractionDwellStart,
                             distractionActive, stats, storedStats, triggers >>

\* chrome.tabs.onActivated, up to its await of chrome.tabs.get
TabActivated(tabId) ==
    /\ enabled
    /\ Budget
    /\ pendingGet = NoTab
    /\ Len(tabSwitches) < MaxSwitches
    /\ tabSwitches' = FilterRecent(Append(tabSwitches, now), now - SwitchWindowSecs)
    /\ pendingGet' = tabId
    /\ activations' = Append(activations, now)
    /\ UNCHANGED << now, enabled, mode, isIdle, idleStartTime, distractionScore, scoreDecaySecs,
                    contentSignals, classificationHistory, previousTabCategory,
                    currentTabCategory, distractionDwellStart, distractionTabId,
                    distractionActive, stats, storedStats, cyclePc, triggers >>
    /\ UNCHANGED << domainVars, prefVars, streak >>
    /\ UNCHANGED auxVars

\* chrome.tabs.get resolved: the rest of the onActivated handler
TabGetResolved(url) ==
    /\ pendingGet # NoTab
    /\ UpdateTabCategory(pendingGet, url)
    /\ pendingGet' = NoTab
    /\ UNCHANGED << now, enabled, mode, tabSwitches, isIdle, idleStartTime,
                    distractionScore, scoreDecaySecs, contentSignals, classificationHistory, cyclePc >>
    /\ UNCHANGED << domainVars, prefVars, seqVars >>
    /\ UNCHANGED auxVars

\* chrome.tabs.get rejected (the tab is gone): catch (e) { }
TabGetRejected ==
    /\ pendingGet # NoTab
    /\ pendingGet' = NoTab
    /\ UNCHANGED << now, enabled, mode, tabSwitches, isIdle, idleStartTime,
                    distractionScore, scoreDecaySecs, contentSignals, classificationHistory,
                    previousTabCategory, currentTabCategory, distractionDwellStart,
                    distractionTabId, distractionActive, stats, storedStats, cyclePc,
                    triggers >>
    /\ UNCHANGED << domainVars, prefVars, seqVars >>
    /\ UNCHANGED auxVars

\* chrome.tabs.onUpdated for the active tab, with status 'complete' or a url
TabUpdated(tabId, url) ==
    /\ enabled
    /\ Budget
    /\ UpdateTabCategory(tabId, url)
    /\ UNCHANGED << now, enabled, mode, tabSwitches, isIdle, idleStartTime,
                    distractionScore, scoreDecaySecs, contentSignals, classificationHistory, cyclePc,
                    pendingGet >>
    /\ UNCHANGED << domainVars, prefVars, seqVars >>
    /\ UNCHANGED auxVars

\* ------------------------------------------------------------------------
\* Idle detection
\* ------------------------------------------------------------------------
handleIdleStateChange(newState) ==
    /\ enabled
    /\ Budget
    /\ IF newState = "idle" \/ newState = "locked"
       THEN /\ isIdle' = TRUE
            /\ idleStartTime' = now
            /\ UNCHANGED stats
       ELSE /\ stats' = IF isIdle /\ idleStartTime # NoTime /\ idleStartTime # 0
                        THEN [stats EXCEPT !.totalIdleSeconds = @ + (now - idleStartTime)]
                        ELSE stats
            /\ isIdle' = FALSE
            /\ idleStartTime' = NoTime
    /\ UNCHANGED << now, enabled, mode, tabSwitches, distractionScore, scoreDecaySecs, contentSignals,
                    classificationHistory, previousTabCategory, currentTabCategory,
                    distractionDwellStart, distractionTabId, distractionActive,
                    storedStats, cyclePc, pendingGet, triggers >>
    /\ UNCHANGED << domainVars, prefVars, seqVars >>
    /\ UNCHANGED auxVars

\* ------------------------------------------------------------------------
\* Inbound messages
\* ------------------------------------------------------------------------
\* case 'CONTENT_SIGNALS'
ContentSignalsMsg(msg) ==
    /\ Budget
    /\ contentSignals' = msg
    /\ UNCHANGED << now, enabled, mode, tabSwitches, isIdle, idleStartTime,
                    distractionScore, scoreDecaySecs, classificationHistory, previousTabCategory,
                    currentTabCategory, distractionDwellStart, distractionTabId,
                    distractionActive, stats, storedStats, cyclePc, pendingGet,
                    triggers >>
    /\ UNCHANGED << domainVars, prefVars, seqVars >>
    /\ UNCHANGED auxVars

\* mutant: the message is ignored while the extension is switched off
ResetSessionStartedEnabledMut ==
    /\ enabled
    /\ Budget
    /\ stats.resetSessions < MaxResets
    /\ stats' = [stats EXCEPT !.resetSessions = @ + 1, !.date = Today]
    /\ distractionScore' = 0
    /\ scoreDecaySecs' = 0
    /\ distractionActive' = FALSE
    /\ storedStats' = stats'
    /\ UNCHANGED << now, enabled, mode, tabSwitches, isIdle, idleStartTime,
                    contentSignals, classificationHistory, previousTabCategory,
                    currentTabCategory, distractionDwellStart, distractionTabId,
                    cyclePc, pendingGet, triggers >>
    /\ UNCHANGED << domainVars, prefVars, seqVars >>
    /\ UNCHANGED auxVars

\* case 'RESET_SESSION_STARTED'
ResetSessionStarted ==
    /\ Budget
    /\ stats.resetSessions < MaxResets
    /\ stats' = [stats EXCEPT !.resetSessions = @ + 1, !.date = Today]
    /\ distractionScore' = 0
    /\ scoreDecaySecs' = 0
    /\ distractionActive' = FALSE
    /\ storedStats' = stats'
    /\ UNCHANGED << now, enabled, mode, tabSwitches, isIdle, idleStartTime,
                    contentSignals, classificationHistory, previousTabCategory,
                    currentTabCategory, distractionDwellStart, distractionTabId,
                    cyclePc, pendingGet, triggers >>
    /\ UNCHANGED << domainVars, prefVars, seqVars >>
    /\ UNCHANGED auxVars

\* case 'SET_MODE'
SetMode(m) ==
    /\ Budget
    /\ mode' = m
    /\ distractionScore' = 0
    /\ scoreDecaySecs' = 0
    /\ distractionActive' = FALSE
    /\ storedMode' = m
    /\ UNCHANGED << now, enabled, tabSwitches, isIdle, idleStartTime,
                    contentSignals, classificationHistory, previousTabCategory,
                    currentTabCategory, distractionDwellStart, distractionTabId,
                    stats, storedStats, storedEnabled, cyclePc, pendingGet, triggers >>
    /\ UNCHANGED << domainVars, seqVars >>
    /\ UNCHANGED auxVars

\* case 'SET_ENABLED'
SetEnabled(e) ==
    /\ Budget
    /\ enabled' = e
    /\ storedEnabled' = e
    /\ UNCHANGED << now, mode, tabSwitches, isIdle, idleStartTime, distractionScore, scoreDecaySecs,
                    contentSignals, classificationHistory, previousTabCategory,
                    currentTabCategory, distractionDwellStart, distractionTabId,
                    distractionActive, stats, storedStats, storedMode, cyclePc,
                    pendingGet, triggers >>
    /\ UNCHANGED << domainVars, seqVars >>
    /\ UNCHANGED auxVars

\* ------------------------------------------------------------------------
\* Scoring cycle
\* ------------------------------------------------------------------------
\* the classification of the cycle that runs in the current state
CycleSignals ==
    RawSignals(now, tabSwitches, isIdle, idleStartTime, contentSignals, ThresholdsOf(mode))

CycleContext ==
    [ isTypingRecently |-> contentSignals.isTypingRecently,
      isScrollingRecently |-> contentSignals.isScrollingRecently,
      scrollVelocity |-> contentSignals.scrollVelocity ]

CycleClassification ==
    classifyActivity(CycleSignals, CycleContext, ThresholdsOf(mode), currentTabCategory)

\* the classification sequence grows by c
StreakAfter(c) ==
    IF c = "DISTRACTED"
    THEN [d |-> Min(CONFIRM_CYCLES, streak.d + 1), n |-> 0]
    ELSE [d |-> 0, n |-> Min(CONFIRM_CYCLES, streak.n + 1)]

\* runScoringCycle from "Step 1" to the await of saveStats in the gate, or to
\* its end when the gate does not enter the distracted state
\* pcNew is where the invocation stands afterwards; resolves tells whether the
\* gate's saveStats() resolves (the write lands, the invocation resumes) or
\* rejects (nothing is stored and the invocation ends at the await)
EvaluateAndGateAt(pcNew, resolves) ==
    LET classification == CycleClassification
        window == PushWindow(classificationHistory, classification)
    IN  /\ distractionScore' = Min(ScoreCap, RawScore(CycleSignals))
        /\ scoreDecaySecs' = 0
        /\ streak' = StreakAfter(classification)
        /\ UNCHANGED activations
        /\ IF ~distractionActive /\ ConfirmedDistracted(window)
           THEN /\ distractionActive' = TRUE
                /\ stats' = CountedStats(stats)
                /\ storedStats' = IF resolves THEN stats' ELSE storedStats
                /\ classificationHistory' = window
                /\ pcNew = IF resolves THEN "gateSave" ELSE "idle"
           ELSE IF distractionActive /\ ConfirmedRecovered(window)
           THEN /\ distractionActive' = FALSE
                /\ classificationHistory' = RecoveredWindow(window)
                /\ pcNew = "idle"
                /\ UNCHANGED << stats, storedStats >>
           ELSE /\ classificationHistory' = window
                /\ pcNew = "idle"
                /\ UNCHANGED << distractionActive, stats, storedStats >>

EvaluateAndGate == EvaluateAndGateAt(cyclePc', TRUE)

\* a tick of setInterval(runScoringCycle, 5000): up to the first await
CycleStart ==
    /\ cyclePc = "idle"
    /\ enabled
    /\ Budget
    /\ IF DwellFires(now, distractionDwellStart, distractionActive)
       THEN /\ distractionActive' = TRUE
            /\ stats' = CountedStats(stats)
            /\ storedStats' = stats'
            /\ cyclePc' = "dwellSave"
            /\ UNCHANGED << distractionScore, scoreDecaySecs, classificationHistory, seqVars >>
       ELSE EvaluateAndGate
    /\ UNCHANGED << now, enabled, mode, tabSwitches, isIdle, idleStartTime,
                    contentSignals, previousTabCategory, currentTabCategory,
                    distractionDwellStart, distractionTabId, pendingGet, triggers >>
    /\ UNCHANGED << domainVars, prefVars >>
    /\ UNCHANGED auxVars

\* the dwell check's saveStats resolved: triggerDistraction(), then the rest
CycleAfterDwellSave ==
    /\ cyclePc = "dwellSave"
    /\ triggers' = triggers + 1
    /\ EvaluateAndGate
    /\ UNCHANGED << now, enabled, mode, tabSwitches, isIdle, idleStartTime,
                    contentSignals, previousTabCategory, currentTabCategory,
                    distractionDwellStart, distractionTabId, pendingGet >>
    /\ UNCHANGED << domainVars, prefVars >>
    /\ UNCHANGED auxVars

\* the gate's saveStats resolved: triggerDistraction(), then broadcastMetrics
CycleAfterGateSave ==
    /\ cyclePc = "gateSave"
    /\ triggers' = triggers + 1
    /\ cyclePc' = "idle"
    /\ UNCHANGED << now, enabled, mode, tabSwitches, isIdle, idleStartTime,
                    distractionScore, scoreDecaySecs, contentSignals, classificationHistory,
                    previousTabCategory, currentTabCategory, distractionDwellStart,
                    distractionTabId, distractionActive, stats, storedStats, pendingGet >>
    /\ UNCHANGED << domainVars, prefVars, seqVars >>
    /\ UNCHANGED auxVars

\* ------------------------------------------------------------------------
\* The clock
\* ------------------------------------------------------------------------
Advance ==
    /\ now + StepSecs <= MaxTime
    /\ now' = now + StepSecs
    /\ UNCHANGED << enabled, mode, tabSwitches, isIdle, idleStartTime,
                    distractionScore, scoreDecaySecs, contentSignals, classificationHistory,
                    previousTabCategory, currentTabCategory, distractionDwellStart,
                    distractionTabId, distractionActive, stats, storedStats, cyclePc,
                    pendingGet, triggers >>
    /\ UNCHANGED << domainVars, prefVars, seqVars >>
    /\ UNCHANGED auxVars

\* ------------------------------------------------------------------------
\* The engine: navigation in the active tab, the messages and the scoring
\* cycle.  Tab activations and idle changes are taken in NextSignals.
\* ------------------------------------------------------------------------
Next ==
    \/ Advance
    \/ \E tabId \in TabIds, url \in EngineUrls : TabUpdated(tabId, url)
    \/ \E msg \in ContentMessages : ContentSignalsMsg(msg)
    \/ ResetSessionStarted
    \/ \E m \in SentModes : SetMode(m)
    \/ \E e \in BOOLEAN : SetEnabled(e)
    \/ CycleStart
    \/ CycleAfterDwellSave
    \/ CycleAfterGateSave

Spec == Init /\ [][Next]_vars

\* ------------------------------------------------------------------------
\* Signal capture: tab activations, idle changes and content signals feeding
\* the scoring cycle, in the default mode
\* ------------------------------------------------------------------------
\* a CONTENT_SIGNALS snapshot with the backspace signal alone
BackspaceSignals ==
    [ backspaceRatio |-> 30, mouseJitter |-> 0, scrollVelocity |-> 0,
      isTypingRecently |-> FALSE, isScrollingRecently |-> FALSE ]
SignalMessages == { QuietSignals, ErraticSignals, BackspaceSignals }
SignalUrls == { UrlProductive, UrlUnknown, UrlDistraction }
\* the states chrome.idle reports
SignalStates == { "active", "idle", "locked" }

NextSignals ==
    \/ Advance
    \/ \E tabId \in TabIds : TabActivated(tabId)
    \/ \E url \in SignalUrls : TabGetResolved(url)
    \/ TabGetRejected
    \/ \E newState \in SignalStates : handleIdleStateChange(newState)
    \/ \E msg \in SignalMessages : ContentSignalsMsg(msg)
    \/ CycleStart
    \/ CycleAfterDwellSave
    \/ CycleAfterGateSave

SpecSignals == Init /\ [][NextSignals]_vars

\* ------------------------------------------------------------------------
\* The custom domain lists and classifyDomain on its own
\* ------------------------------------------------------------------------
\* what the user types into the popup's two inputs
TypedDistraction ==
    { << "coursera", ".", "org" >>,
      << "https", "://", "learn", ".", "coursera", ".", "org", "/", "browse" >>,
      << "cs", ".", "mit", ".", "edu" >>,
      << "WWW", ".", "YouTube", ".", "com" >> }
TypedProductive ==
    { << "https", "://", "www", ".", "youtube", ".", "com", "/", "watch" >> }

\* addDomain's clean-up: trim().toLowerCase(), then the protocol, a leading
\* "www." and everything from the first "/" are removed; the result is the
\* hostname as labels
NormalizeTyped(v) ==
    LET noProto == IF Len(v) >= 2 /\ v[1] \in {"https", "http"} /\ v[2] = "://"
                   THEN SubSeq(v, 3, Len(v)) ELSE v
        lower == [i \in 1..Len(noProto) |-> LowerCase(noProto[i])]
        noWww == IF Len(lower) >= 2 /\ lower[1] = "www" /\ lower[2] = "."
                 THEN SubSeq(lower, 3, Len(lower)) ELSE lower
        cut == IF \E i \in 1..Len(noWww) : noWww[i] = "/"
               THEN (CHOOSE i \in 1..Len(noWww) :
                        noWww[i] = "/" /\ \A j \in 1..(i - 1) : noWww[j] # "/") - 1
               ELSE Len(noWww)
    IN  SelectSeq(SubSeq(noWww, 1, cut), LAMBDA t : t # ".")

\* URLs handed to classifyDomain
ProbeUrls ==
    { NoUrl, << >>,
      << "coursera", ".", "org" >>,
      << "https", "://" >>,
      << "about", ":", "blank" >>,
      << "chrome", "://", "extensions" >>,
      UrlProductive, UrlDistraction, UrlUnknown,
      << "https", "://", "coursera", ".", "org" >>,
      << "https", "://", "learn", ".", "coursera", ".", "org", "/", "browse" >>,
      << "https", "://", "WWW", ".", "YouTube", ".", "com" >>,
      << "https", "://", "m", ".", "youtube", ".", "com" >>,
      << "https", "://", "cs", ".", "mit", ".", "edu", "/", "courses" >>,
      << "https", "://", "www", ".", "cam", ".", "ac", ".", "uk" >>,
      << "https", "://", "edu" >> }

\* popup: addDomain(inputId, storageKey)
PopupAddDomain(key, typed) ==
    /\ NormalizeTyped(typed) # << >>
    /\ NormalizeTyped(typed) \notin storedCustom[key]
    /\ storedCustom' = [storedCustom EXCEPT ![key] = @ \cup {NormalizeTyped(typed)}]
    /\ UNCHANGED << now, enabled, mode, tabSwitches, isIdle, idleStartTime,
                    distractionScore, scoreDecaySecs, contentSignals, classificationHistory,
                    previousTabCategory, currentTabCategory, distractionDwellStart,
                    distractionTabId, distractionActive, stats, storedStats, cyclePc,
                    pendingGet, triggers, customProductive, customDistraction,
                    probeUrl, probeResult >>
    /\ UNCHANGED << prefVars, seqVars >>
    /\ UNCHANGED auxVars

\* popup: removeDomain(domain, storageKey)
PopupRemoveDomain(key, domain) ==
    /\ domain \in storedCustom[key]
    /\ storedCustom' = [storedCustom EXCEPT ![key] = @ \ {domain}]
    /\ UNCHANGED << now, enabled, mode, tabSwitches, isIdle, idleStartTime,
                    distractionScore, scoreDecaySecs, contentSignals, classificationHistory,
                    previousTabCategory, currentTabCategory, distractionDwellStart,
                    distractionTabId, distractionActive, stats, storedStats, cyclePc,
                    pendingGet, triggers, customProductive, customDistraction,
                    probeUrl, probeResult >>
    /\ UNCHANGED << prefVars, seqVars >>
    /\ UNCHANGED auxVars

\* case 'UPDATE_CUSTOM_DOMAINS': loadCustomDomains()
UpdateCustomDomains ==
    /\ \/ customProductive # storedCustom.customProductive
       \/ customDistraction # storedCustom.customDistraction
    /\ customProductive' = storedCustom.customProductive
    /\ customDistraction' = storedCustom.customDistraction
    /\ UNCHANGED << now, enabled, mode, tabSwitches, isIdle, idleStartTime,
                    distractionScore, scoreDecaySecs, contentSignals, classificationHistory,
                    previousTabCategory, currentTabCategory, distractionDwellStart,
                    distractionTabId, distractionActive, stats, storedStats, cyclePc,
                    pendingGet, triggers, storedCustom, probeUrl, probeResult >>
    /\ UNCHANGED << prefVars, seqVars >>
    /\ UNCHANGED auxVars

\* classifyDomain(url) called with the lists as they are
Probe(url) ==
    /\ probeUrl' = url
    /\ probeResult' = ClassifyDomain(url, customProductive, customDistraction)
    /\ UNCHANGED << now, enabled, mode, tabSwitches, isIdle, idleStartTime,
                    distractionScore, scoreDecaySecs, contentSignals, classificationHistory,
                    previousTabCategory, currentTabCategory, distractionDwellStart,
                    distractionTabId, distractionActive, stats, storedStats, cyclePc,
                    pendingGet, triggers, customProductive, customDistraction,
                    storedCustom >>
    /\ UNCHANGED << prefVars, seqVars >>
    /\ UNCHANGED auxVars

NextDomain ==
    \/ \E typed \in TypedDistraction : PopupAddDomain("customDistraction", typed)
    \/ \E typed \in TypedProductive : PopupAddDomain("customProductive", typed)
    \/ \E key \in {"customProductive", "customDistraction"} :
          \E domain \in storedCustom[key] : PopupRemoveDomain(key, domain)
    \/ UpdateCustomDomains
    \/ \E url \in ProbeUrls : Probe(url)

SpecDomain == Init /\ [][NextDomain]_vars

\* ------------------------------------------------------------------------
\* classifyActivity on its own
\* ------------------------------------------------------------------------
\* scroll velocities around the two limits, 150 and 600
Velocities == { 0, 100, 150, 600, 700 }
RawSignalSets == [ idle : BOOLEAN, tabSwitch : BOOLEAN, backspace : BOOLEAN, jitter : BOOLEAN ]
Contexts ==
    [ isTypingRecently : BOOLEAN, isScrollingRecently : BOOLEAN, scrollVelocity : Velocities ]
ThresholdRows == { MODE_THRESHOLDS[m] : m \in DOMAIN MODE_THRESHOLDS }
ActivityArgs ==
    [ rawSignals : RawSignalSets, context : Contexts, thresholds : ThresholdRows,
      currentCategory : { "PRODUCTIVE", "DISTRACTION", "UNKNOWN" } ]

\* a call of classifyActivity with any arguments of the bounded sets is about
\* to be made
InitClassify ==
    /\ InitEngine
    /\ customProductive = {}
    /\ customDistraction = {}
    /\ storedCustom = [customProductive |-> {}, customDistraction |-> {}]
    /\ storedKeys = StorageKeys
    /\ InitTrigger
    /\ caArgs \in ActivityArgs
    /\ caLabel = "PENDING"

\* classifyActivity(rawSignals, context, thresholds, currentCategory) returns
ClassifyProbe ==
    /\ caLabel = "PENDING"
    /\ caLabel' = classifyActivity(caArgs.rawSignals, caArgs.context, caArgs.thresholds,
                                   caArgs.currentCategory)
    /\ caArgs' = [caArgs EXCEPT !.rawSignals = RawSignalsAfter(@, caArgs.context)]
    /\ UNCHANGED << legacy, away, page, tdArgs, tdResult, tdMessage, rsResult, lastScoreDecay, storedKeys, today, overlapPc, engineVars, domainVars,
                    prefVars, seqVars >>

NextClassify == ClassifyProbe

SpecClassify == InitClassify /\ [][NextClassify]_vars

\* ------------------------------------------------------------------------
\* Score decay.  state.distractionScore is a real number: it is kept as the
\* integer a handler assigned last (distractionScore) and the seconds of
\* half-life decay applied to it since (scoreDecaySecs), and its value is
\*     distractionScore * 0.5 ^ (scoreDecaySecs / HalfLifeSecs)
\* ------------------------------------------------------------------------
HalfLifeSecs == 30

RECURSIVE Pow2(_)
Pow2(n) == IF n <= 0 THEN 1 ELSE 2 * Pow2(n - 1)

\* mutant: the elapsed time is taken off instead of added (the factor is
\* 2 ^ (elapsed / halfLife))
DecayedSecsGrowMut(score, decaySecs, elapsed) ==
    IF score = 0 THEN 0 ELSE decaySecs - elapsed

\* the decay of score * 0.5^(decaySecs/halfLife) after the multiplication by
\* Math.pow(0.5, elapsed / halfLifeMs); Math.max(0, .) changes nothing, the
\* product of a non-negative score and a positive factor is never below 0,
\* and 0 times any factor is 0
DecayedSecs(score, decaySecs, elapsed) ==
    IF score = 0 THEN 0 ELSE decaySecs + elapsed

\* s1 * 0.5^(d1/30) <= s2 * 0.5^(d2/30), compared exactly on the squares:
\* s1^2 * 2^((d2 - d1)/15) <= s2^2; the model's times are multiples of
\* StepSecs, half the half-life
ScoreLeq(s1, d1, s2, d2) ==
    LET k == (d2 - d1) \div StepSecs
    IN  IF k >= 0 THEN s1 * s1 * Pow2(k) <= s2 * s2
                  ELSE s1 * s1 <= s2 * s2 * Pow2(-k)
ScoreEq(s1, d1, s2, d2) == ScoreLeq(s1, d1, s2, d2) /\ ScoreLeq(s2, d2, s1, d1)

\* decayScore, the callback of setInterval(decayScore, 10000); it does not
\* look at state.enabled
decayScore ==
    /\ scoreDecaySecs' = DecayedSecs(distractionScore, scoreDecaySecs, now - lastScoreDecay)
    /\ lastScoreDecay' = now
    /\ UNCHANGED << probeVars, storedKeys, today, overlapPc, distractionScore >>
    /\ UNCHANGED << now, enabled, mode, tabSwitches, isIdle, idleStartTime,
                    contentSignals, classificationHistory, previousTabCategory,
                    currentTabCategory, distractionDwellStart, distractionTabId,
                    distractionActive, stats, storedStats, cyclePc, pendingGet,
                    triggers >>
    /\ UNCHANGED << domainVars, prefVars, seqVars >>

\* the snapshots and pages of the decay runs
DecayMessages == { QuietSignals, ErraticSignals }
DecayUrls == { UrlUnknown, UrlDistraction }

\* the engine with both timers: the scoring cycle and the decay cycle
NextDecay ==
    \/ Advance
    \/ decayScore
    \/ \E tabId \in TabIds, url \in DecayUrls : TabUpdated(tabId, url)
    \/ \E msg \in DecayMessages : ContentSignalsMsg(msg)
    \/ ResetSessionStarted
    \/ \E m \in SentModes : SetMode(m)
    \/ \E e \in BOOLEAN : SetEnabled(e)
    \/ CycleStart
    \/ CycleAfterDwellSave
    \/ CycleAfterGateSave

SpecDecay == Init /\ [][NextDecay]_vars

\* ------------------------------------------------------------------------
\* Start of the service worker: the module is evaluated (state is the
\* literal of its declaration, the custom sets are empty) and init() loads
\* what chrome.storage.local holds
\* ------------------------------------------------------------------------
\* loadCustomDomains: new Set(stored[key] || [])
LoadedCustom(key) == IF key \in storedKeys THEN storedCustom[key] ELSE {}
\* if (stored.enabled !== undefined) state.enabled = stored.enabled
LoadedEnabled == IF "enabled" \in storedKeys THEN storedEnabled ELSE TRUE
\* if (stored.focusMode) state.mode = stored.focusMode
LoadedMode == IF "focusMode" \in storedKeys THEN storedMode ELSE "deep-work"
\* mutant: the stats are read without a look at whether the key is set
LoadedStatsNoKeyMut == IF storedStats.date = Today THEN storedStats ELSE InitialStats
\* state.stats = stored.stats if they are today's, else the literal's zero
\* counters, which saveStats then stamps and stores
LoadedStats ==
    IF "stats" \in storedKeys /\ storedStats.date = Today THEN storedStats ELSE InitialStats

Restart ==
    /\ enabled' = LoadedEnabled
    /\ mode' = LoadedMode
    /\ tabSwitches' = << >>
    /\ isIdle' = FALSE
    /\ idleStartTime' = NoTime
    /\ distractionScore' = 0
    /\ scoreDecaySecs' = 0
    /\ lastScoreDecay' = now
    /\ contentSignals' = QuietSignals
    /\ classificationHistory' = << >>
    /\ previousTabCategory' = "UNKNOWN"
    /\ currentTabCategory' = "UNKNOWN"
    /\ distractionDwellStart' = NoTime
    /\ distractionTabId' = NoTab
    /\ distractionActive' = FALSE
    /\ customProductive' = LoadedCustom("customProductive")
    /\ customDistraction' = LoadedCustom("customDistraction")
    /\ stats' = LoadedStats
    /\ storedStats' = stats'
    /\ storedKeys' = storedKeys \cup {"stats"}
    /\ cyclePc' = "idle"
    /\ overlapPc' = "idle"
    /\ pendingGet' = NoTab
    /\ streak' = [d |-> 0, n |-> 0]
    /\ UNCHANGED activations
    /\ UNCHANGED << now, today, storedCustom, storedEnabled, storedMode, triggers, probeUrl,
                    probeResult, probeVars >>

\* the engine, with idle changes, and the service worker restarted at any
\* moment
NextRestart ==
    \/ Advance
    \/ \E tabId \in TabIds, url \in DecayUrls : TabUpdated(tabId, url)
    \/ \E newState \in SignalStates : handleIdleStateChange(newState)
    \/ ResetSessionStarted
    \/ \E m \in SentModes : SetMode(m)
    \/ \E e \in BOOLEAN : SetEnabled(e)
    \/ CycleStart
    \/ CycleAfterDwellSave
    \/ CycleAfterGateSave
    \/ Restart

SpecRestart == Init /\ [][NextRestart]_vars

\* what chrome.storage.local can hold when the service worker starts: any
\* set of keys, stats of today or of the day before with counters above 0,
\* either flag, any mode, custom lists with one hostname.  A key that is not
\* set has no value: the model's variable then holds any value of the set,
\* which init() must not read.
Yesterday == "day0"
StoredStatsSets ==
    [ date : {Today, Yesterday}, distractionsDetected : {1, 2}, resetSessions : {0, 1},
      totalIdleSeconds : {0, 45} ]
StoredCustomSets ==
    [ customProductive : { {}, { << "example", ".", "com" >> } },
      customDistraction : { {}, { << "coursera", ".", "org" >> } } ]

\* the module has been evaluated and init() has not run yet
InitStorage ==
    /\ InitMemory
    /\ customProductive = {}
    /\ customDistraction = {}
    /\ caArgs = QuietArgs
    /\ caLabel = "FOCUSED"
    /\ InitTrigger
    /\ storedKeys \in SUBSET StorageKeys
    /\ storedEnabled \in BOOLEAN
    /\ storedMode \in DOMAIN MODE_THRESHOLDS
    /\ storedStats \in StoredStatsSets
    /\ storedCustom \in StoredCustomSets

NextInit == Restart

SpecInit == InitStorage /\ [][NextInit]_vars

\* ------------------------------------------------------------------------
\* triggerDistraction on its own
\* ------------------------------------------------------------------------
UrlChrome == << "chrome", "://", "extensions" >>
UrlEdge == << "edge", "://", "settings" >>
UrlExtensionPage == << "chrome-extension", "://", "abcdef", "/", "popup.html" >>
\* tab.url of an open tab: undefined, empty, internal, an extension page, a
\* web page
TriggerUrls == { NoUrl, << >>, UrlChrome, UrlEdge, UrlExtensionPage, UrlDistraction }
TabInfos == { ClosedTab } \cup [ exists : {TRUE}, url : TriggerUrls ]
TriggerArgs == [ activeTab : {NoTab} \cup TriggerTabIds, tabs : [ TriggerTabIds -> TabInfos ] ]

\* mutant: edge:// pages are not skipped
RestrictedUrlNoEdgeMut(url) ==
    \/ url = NoUrl \/ url = << >>
    \/ (Len(url) >= 2 /\ url[1] = "chrome" /\ url[2] = "://")

\* !tab.url || tab.url.startsWith('chrome://') || tab.url.startsWith('edge://')
RestrictedUrl(url) ==
    \/ url = NoUrl \/ url = << >>
    \/ (Len(url) >= 2 /\ url[1] \in {"chrome", "edge"} /\ url[2] = "://")

\* mutant: the active tab of the current window is preferred
TargetTabActiveFirstMut(tabId, args) == IF args.activeTab # NoTab THEN args.activeTab ELSE tabId

\* the tab triggerDistraction goes for: state.distractionTabId, or the id of
\* the active tab of the current window when that is falsy
TargetTab(tabId, args) == IF tabId # NoTab THEN tabId ELSE args.activeTab

\* what one call does: nothing without a target; a warning when tabs.get
\* rejects; a log line and a return for a restricted page; else one
\* chrome.tabs.sendMessage of DISTRACTION_DETECTED
TriggerOutcome(tabId, args) ==
    LET target == TargetTab(tabId, args)
    IN  IF target = NoTab THEN "NO_TARGET"
        ELSE IF ~args.tabs[target].exists THEN "NOT_FOUND"
        ELSE IF RestrictedUrl(args.tabs[target].url) THEN "SKIPPED"
        ELSE "SENT"

\* chrome.tabs.sendMessage(targetTabId, { type: 'DISTRACTION_DETECTED', mode: state.mode })
TriggerMessage(tabId, args, m) ==
    IF TriggerOutcome(tabId, args) = "SENT"
    THEN [ to |-> TargetTab(tabId, args), mode |-> m ]
    ELSE NoMessage

\* a call of triggerDistraction with any tabs of the bounded sets is about to
\* be made
InitTriggerProbe ==
    /\ InitEngine
    /\ customProductive = {}
    /\ customDistraction = {}
    /\ storedCustom = [customProductive |-> {}, customDistraction |-> {}]
    /\ storedKeys = StorageKeys
    /\ caArgs = QuietArgs
    /\ caLabel = "FOCUSED"
    /\ tdArgs \in TriggerArgs
    /\ tdResult = "PENDING"
    /\ tdMessage = NoMessage
    /\ rsResult = QuietArgs.rawSignals
    /\ legacy = LegacyState
    /\ away = [state |-> "active", since |-> NoTime]
    /\ page = PageState

\* triggerDistraction() runs to its end
TriggerProbe ==
    /\ tdResult = "PENDING"
    /\ tdResult' = TriggerOutcome(distractionTabId, tdArgs)
    /\ tdMessage' = TriggerMessage(distractionTabId, tdArgs, mode)
    /\ UNCHANGED << legacy, away, page, tdArgs, caArgs, caLabel, rsResult, lastScoreDecay, storedKeys, today, overlapPc, engineVars,
                    domainVars, prefVars, seqVars >>

\* navigation sets state.distractionTabId, and the popup the mode, before the
\* call
NextTrigger ==
    \/ \E tabId \in TabIds, url \in DecayUrls : TabUpdated(tabId, url)
    \/ \E m \in SentModes : SetMode(m)
    \/ TriggerProbe

SpecTrigger == InitTriggerProbe /\ [][NextTrigger]_vars

\* ------------------------------------------------------------------------
\* A scoring cycle whose saveStats() rejects.  runScoringCycle has no
\* try/catch: the rejection ends the invocation at the await, with what it
\* assigned before and nothing of what follows the await; as the invocation
\* does nothing after the rejection, the tick is one step
\* ------------------------------------------------------------------------
CycleSaveRejects ==
    /\ cyclePc = "idle"
    /\ enabled
    /\ Budget
    /\ IF DwellFires(now, distractionDwellStart, distractionActive)
       THEN /\ distractionActive' = TRUE
            /\ stats' = CountedStats(stats)
            /\ UNCHANGED << storedStats, cyclePc, distractionScore, scoreDecaySecs,
                            classificationHistory, seqVars >>
       ELSE /\ ~distractionActive
            /\ ConfirmedDistracted(PushWindow(classificationHistory, CycleClassification))
            /\ EvaluateAndGateAt(cyclePc', FALSE)
    /\ UNCHANGED << now, enabled, mode, tabSwitches, isIdle, idleStartTime,
                    contentSignals, previousTabCategory, currentTabCategory,
                    distractionDwellStart, distractionTabId, pendingGet, triggers >>
    /\ UNCHANGED << domainVars, prefVars >>
    /\ UNCHANGED auxVars

\* the engine with storage writes that can fail
NextFailure ==
    \/ Advance
    \/ \E tabId \in TabIds, url \in DecayUrls : TabUpdated(tabId, url)
    \/ \E msg \in DecayMessages : ContentSignalsMsg(msg)
    \/ CycleStart
    \/ CycleAfterDwellSave
    \/ CycleAfterGateSave
    \/ CycleSaveRejects

SpecFailure == Init /\ [][NextFailure]_vars

\* ------------------------------------------------------------------------
\* Midnight: new Date().toDateString() gives the next day from now on
\* ------------------------------------------------------------------------
Midnight ==
    /\ today = FirstDay
    /\ today' = NextDay
    /\ UNCHANGED << probeVars, lastScoreDecay, storedKeys, overlapPc, engineVars, domainVars,
                    prefVars, seqVars >>

\* the engine over two days, restarted at any moment
NextMidnight ==
    \/ Advance
    \/ Midnight
    \/ \E tabId \in TabIds, url \in DecayUrls : TabUpdated(tabId, url)
    \/ ResetSessionStarted
    \/ CycleStart
    \/ CycleAfterDwellSave
    \/ CycleAfterGateSave
    \/ Restart

SpecMidnight == Init /\ [][NextMidnight]_vars

\* ------------------------------------------------------------------------
\* Tab switching while scrolling fast
\* ------------------------------------------------------------------------
\* a content snapshot of a fast scroll: no typing, no backspace, no jitter
FastScrollSignals ==
    [ backspaceRatio |-> 0, mouseJitter |-> 0, scrollVelocity |-> 700,
      isTypingRecently |-> FALSE, isScrollingRecently |-> TRUE ]
AimlessMessages == { QuietSignals, FastScrollSignals }

NextAimless ==
    \/ Advance
    \/ \E tabId \in TabIds : TabActivated(tabId)
    \/ \E url \in DecayUrls : TabGetResolved(url)
    \/ TabGetRejected
    \/ \E msg \in AimlessMessages : ContentSignalsMsg(msg)
    \/ CycleStart
    \/ CycleAfterDwellSave
    \/ CycleAfterGateSave

SpecAimless == Init /\ [][NextAimless]_vars

\* ------------------------------------------------------------------------
\* The raw signals on their own: tab activations, idle changes, content
\* snapshots and mode changes over more than a minute, and the rawSignals
\* object a scoring cycle would build from the state they leave
\* ------------------------------------------------------------------------
\* a CONTENT_SIGNALS snapshot exactly on the two content limits
BoundarySignals ==
    [ backspaceRatio |-> 25, mouseJitter |-> 5, scrollVelocity |-> 0,
      isTypingRecently |-> FALSE, isScrollingRecently |-> FALSE ]
RawMessages == { QuietSignals, BoundarySignals, ErraticSignals }
RawModes == { "deep-work", "research", "casual" }
\* the clock stops here: one step, a minute, and the longest idle threshold
RawMaxTime == StepSecs + SwitchWindowSecs + MODE_THRESHOLDS["casual"].idleSecs

\* a minute passes with no event
AdvanceMinute ==
    /\ now + SwitchWindowSecs <= RawMaxTime
    /\ now' = now + SwitchWindowSecs
    /\ UNCHANGED << enabled, mode, tabSwitches, isIdle, idleStartTime,
                    distractionScore, scoreDecaySecs, contentSignals, classificationHistory,
                    previousTabCategory, currentTabCategory, distractionDwellStart,
                    distractionTabId, distractionActive, stats, storedStats, cyclePc,
                    pendingGet, triggers >>
    /\ UNCHANGED << domainVars, prefVars, seqVars >>
    /\ UNCHANGED auxVars

\* "Step 1" of runScoringCycle, run on the state as it is
RawProbe ==
    /\ rsResult' = CycleSignals
    /\ UNCHANGED << legacy, away, page, caArgs, caLabel, tdArgs, tdResult, tdMessage, lastScoreDecay, storedKeys,
                    today, overlapPc, engineVars, domainVars, prefVars, seqVars >>

NextRaw ==
    \/ Advance
    \/ AdvanceMinute
    \/ \E tabId \in TabIds : TabActivated(tabId)
    \/ TabGetRejected
    \/ \E newState \in SignalStates : handleIdleStateChange(newState)
    \/ \E msg \in RawMessages : ContentSignalsMsg(msg)
    \/ \E m \in RawModes : SetMode(m)
    \/ RawProbe

SpecRaw == Init /\ [][NextRaw]_vars

\* ------------------------------------------------------------------------
\* The display score: all four signals, the scoring cycle and the decay
\* ------------------------------------------------------------------------
ScoreMessages == { BackspaceSignals, ErraticSignals }
ScoreStates == { "idle", "active" }

NextScore ==
    \/ Advance
    \/ decayScore
    \/ \E tabId \in TabIds : TabActivated(tabId)
    \/ TabGetResolved(UrlDistraction)
    \/ \E newState \in ScoreStates : handleIdleStateChange(newState)
    \/ \E msg \in ScoreMessages : ContentSignalsMsg(msg)
    \/ CycleStart
    \/ CycleAfterDwellSave
    \/ CycleAfterGateSave

SpecScore == Init /\ [][NextScore]_vars

\* ------------------------------------------------------------------------
\* Overlapping ticks: setInterval starts runScoringCycle again while an
\* earlier invocation still awaits saveStats
\* ------------------------------------------------------------------------
\* the tick of a second invocation, up to its first await
OverlapStart ==
    /\ cyclePc # "idle"
    /\ overlapPc = "idle"
    /\ enabled
    /\ Budget
    /\ IF DwellFires(now, distractionDwellStart, distractionActive)
       THEN /\ distractionActive' = TRUE
            /\ stats' = CountedStats(stats)
            /\ storedStats' = stats'
            /\ overlapPc' = "dwellSave"
            /\ UNCHANGED << distractionScore, scoreDecaySecs, classificationHistory, seqVars >>
       ELSE EvaluateAndGateAt(overlapPc', TRUE)
    /\ UNCHANGED << now, enabled, mode, tabSwitches, isIdle, idleStartTime,
                    contentSignals, previousTabCategory, currentTabCategory,
                    distractionDwellStart, distractionTabId, cyclePc, pendingGet, triggers >>
    /\ UNCHANGED << domainVars, prefVars >>
    /\ UNCHANGED << probeVars, lastScoreDecay, storedKeys, today >>

\* the second invocation resumes after the dwell check's saveStats
OverlapAfterDwellSave ==
    /\ overlapPc = "dwellSave"
    /\ triggers' = triggers + 1
    /\ EvaluateAndGateAt(overlapPc', TRUE)
    /\ UNCHANGED << now, enabled, mode, tabSwitches, isIdle, idleStartTime,
                    contentSignals, previousTabCategory, currentTabCategory,
                    distractionDwellStart, distractionTabId, cyclePc, pendingGet >>
    /\ UNCHANGED << domainVars, prefVars >>
    /\ UNCHANGED << probeVars, lastScoreDecay, storedKeys, today >>

\* the second invocation resumes after the gate's saveStats
OverlapAfterGateSave ==
    /\ overlapPc = "gateSave"
    /\ triggers' = triggers + 1
    /\ overlapPc' = "idle"
    /\ UNCHANGED << now, enabled, mode, tabSwitches, isIdle, idleStartTime,
                    distractionScore, scoreDecaySecs, contentSignals, classificationHistory,
                    previousTabCategory, currentTabCategory, distractionDwellStart,
                    distractionTabId, distractionActive, stats, storedStats, cyclePc,
                    pendingGet >>
    /\ UNCHANGED << domainVars, prefVars, seqVars >>
    /\ UNCHANGED << probeVars, lastScoreDecay, storedKeys, today >>

\* the engine with up to two invocations of runScoringCycle in flight
NextOverlap ==
    \/ Advance
    \/ \E tabId \in TabIds, url \in EngineUrls : TabUpdated(tabId, url)
    \/ \E msg \in DecayMessages : ContentSignalsMsg(msg)
    \/ ResetSessionStarted
    \/ CycleStart
    \/ CycleAfterDwellSave
    \/ CycleAfterGateSave
    \/ OverlapStart
    \/ OverlapAfterDwellSave
    \/ OverlapAfterGateSave

SpecOverlap == Init /\ [][NextOverlap]_vars

\* ------------------------------------------------------------------------
\* The threshold-gated worker (background.js): its scoring cycle takes the four
\* signals as they stand, and the gate compares their count with the mode's
\* driftSignals and recoverySignals
\* ------------------------------------------------------------------------
MaxLegacyCycles == 3

LegacyScorePerSignal == [idle |-> 2, tabSwitch |-> 3, backspace |-> 2, jitter |-> 3]

LegacyRawScore(s) ==
    (IF s.idle THEN LegacyScorePerSignal.idle ELSE 0)
    + (IF s.tabSwitch THEN LegacyScorePerSignal.tabSwitch ELSE 0)
    + (IF s.backspace THEN LegacyScorePerSignal.backspace ELSE 0)
    + (IF s.jitter THEN LegacyScorePerSignal.jitter ELSE 0)

LegacyThresholdsOf(m) ==
    IF m \in DOMAIN LegacyModeThresholds THEN LegacyModeThresholds[m]
    ELSE LegacyModeThresholds["deep-work"]

\* mutant: the recovery branch is taken up to the drift threshold
LegacyGateOverlapMut(active, activeCount, thresholds) ==
    IF ~active /\ activeCount >= thresholds.driftSignals THEN "ENTER"
    ELSE IF active /\ activeCount <= thresholds.driftSignals THEN "RECOVER"
    ELSE "LOCKED"

\* the if / else-if of the gate: which branch a cycle takes
LegacyGate(active, activeCount, thresholds) ==
    IF ~active /\ activeCount >= thresholds.driftSignals THEN "ENTER"
    ELSE IF active /\ activeCount <= thresholds.recoverySignals THEN "RECOVER"
    ELSE "LOCKED"

\* the signals the next cycles will compute change (the tab switches, the
\* idle time or the content signals behind them changed)
LegacySignals(s) ==
    /\ s # legacy.signals
    /\ legacy' = IF CountTrue(s) = CountTrue(legacy.signals)
                 THEN [legacy EXCEPT !.signals = s]
                 ELSE [legacy EXCEPT !.signals = s, !.flips = 0, !.cycles = 0]
    /\ UNCHANGED << away, page, caArgs, caLabel, tdArgs, tdResult, tdMessage, rsResult, lastScoreDecay,
                    storedKeys, today, overlapPc, engineVars, domainVars, prefVars, seqVars >>

\* runScoringCycle() of background.js
LegacyCycle ==
    /\ legacy.cycles < MaxLegacyCycles
    /\ legacy.distractionsDetected < MaxDetected
    /\ IF ~legacy.enabled THEN UNCHANGED legacy
       ELSE LET thresholds == LegacyThresholdsOf(legacy.mode)
                activeCount == CountTrue(legacy.signals)
                branch == LegacyGate(legacy.distractionActive, activeCount, thresholds)
                score == IF LegacyRawScore(legacy.signals) < 10
                         THEN LegacyRawScore(legacy.signals) ELSE 10
            IN  legacy' =
                  CASE branch = "ENTER" ->
                         [legacy EXCEPT !.distractionScore = score,
                                        !.distractionActive = TRUE,
                                        !.distractionsDetected = @ + 1,
                                        !.flips = @ + 1, !.cycles = @ + 1]
                    [] branch = "RECOVER" ->
                         [legacy EXCEPT !.distractionScore = score,
                                        !.distractionActive = FALSE,
                                        !.flips = @ + 1, !.cycles = @ + 1]
                    [] OTHER ->
                         [legacy EXCEPT !.distractionScore = score, !.cycles = @ + 1]
    /\ UNCHANGED << away, page, caArgs, caLabel, tdArgs, tdResult, tdMessage, rsResult, lastScoreDecay,
                    storedKeys, today, overlapPc, engineVars, domainVars, prefVars, seqVars >>

\* SET_MODE of background.js
LegacySetMode(m) ==
    /\ legacy' = [legacy EXCEPT !.mode = m, !.distractionScore = 0,
                                !.distractionActive = FALSE, !.flips = 0, !.cycles = 0]
    /\ UNCHANGED << away, page, caArgs, caLabel, tdArgs, tdResult, tdMessage, rsResult, lastScoreDecay,
                    storedKeys, today, overlapPc, engineVars, domainVars, prefVars, seqVars >>

\* SET_ENABLED of background.js
LegacySetEnabled(e) ==
    /\ legacy' = [legacy EXCEPT !.enabled = e, !.flips = 0, !.cycles = 0]
    /\ UNCHANGED << away, page, caArgs, caLabel, tdArgs, tdResult, tdMessage, rsResult, lastScoreDecay,
                    storedKeys, today, overlapPc, engineVars, domainVars, prefVars, seqVars >>

NextLegacy ==
    \/ \E s \in RawSignalSets : LegacySignals(s)
    \/ LegacyCycle
    \/ \E m \in SentModes : LegacySetMode(m)
    \/ \E e \in BOOLEAN : LegacySetEnabled(e)

SpecLegacy == Init /\ [][NextLegacy]_vars

\* ------------------------------------------------------------------------
\* Idle accounting: chrome.idle reports every change of its state, among
\* "active", "idle" and "locked", to handleIdleStateChange.  away keeps what
\* the browser reported and the time the user left "active".
\* ------------------------------------------------------------------------
IdleStateChanged(newState) ==
    /\ newState # away.state
    /\ away' = [ state |-> newState,
                 since |-> IF newState = "active" THEN NoTime
                           ELSE IF away.state = "active" THEN now
                           ELSE away.since ]
    /\ enabled
    /\ Budget
    /\ IF newState = "idle" \/ newState = "locked"
       THEN /\ isIdle' = TRUE
            /\ idleStartTime' = now
            /\ UNCHANGED stats
       ELSE /\ stats' = IF isIdle /\ idleStartTime # NoTime /\ idleStartTime # 0
                        THEN [stats EXCEPT !.totalIdleSeconds = @ + (now - idleStartTime)]
                        ELSE stats
            /\ isIdle' = FALSE
            /\ idleStartTime' = NoTime
    /\ UNCHANGED << now, enabled, mode, tabSwitches, distractionScore, scoreDecaySecs, contentSignals,
                    classificationHistory, previousTabCategory, currentTabCategory,
                    distractionDwellStart, distractionTabId, distractionActive,
                    storedStats, cyclePc, pendingGet, triggers >>
    /\ UNCHANGED << domainVars, prefVars, seqVars >>
    /\ UNCHANGED << caArgs, caLabel, tdArgs, tdResult, tdMessage, rsResult, legacy, page,
                    lastScoreDecay, storedKeys, today, overlapPc >>

NextIdle ==
    \/ Advance
    \/ \E newState \in SignalStates : IdleStateChanged(newState)
    \/ \E m \in RawModes : SetMode(m)
    \/ RawProbe

SpecIdle == Init /\ [][NextIdle]_vars

\* ------------------------------------------------------------------------
\* The content script: the intervention UI, the reset overlay with its
\* 60-second countdown, and the CLOSE_TAB message.  The service worker removes
\* the tab that sent CLOSE_TAB, which ends the content script.
\* ------------------------------------------------------------------------
CountdownSecs == 60
MaxCountdowns == 2

\* clearDistractionUI()
clearDistractionUI(p) ==
    [p EXCEPT !.autoClearTimer = FALSE, !.grayscaleStyle = FALSE, !.notifStyle = FALSE,
              !.bannerEl = FALSE, !.overlayEl = FALSE, !.uiInjected = FALSE]

\* applyDistractionUI(mode)
applyDistractionUI(p) ==
    IF p.uiInjected THEN p
    ELSE [p EXCEPT !.uiInjected = TRUE, !.grayscaleStyle = TRUE, !.notifStyle = TRUE,
                   !.bannerEl = TRUE, !.autoClearTimer = TRUE]

pageFrame ==
    UNCHANGED << away, caArgs, caLabel, tdArgs, tdResult, tdMessage, rsResult, legacy,
                 lastScoreDecay, storedKeys, today, overlapPc, engineVars, domainVars,
                 prefVars, seqVars >>

\* message DISTRACTION_DETECTED
PageDistractionDetected ==
    /\ ~page.closeTab
    /\ page' = applyDistractionUI(page)
    /\ pageFrame

\* message CLEAR_INTERVENTIONS
PageClearInterventions ==
    /\ ~page.closeTab
    /\ page' = [clearDistractionUI(page) EXCEPT !.cleared = TRUE]
    /\ pageFrame

\* message SET_ENABLED
PageSetEnabled(e) ==
    /\ ~page.closeTab
    /\ page' = IF e THEN [page EXCEPT !.enabled = TRUE]
               ELSE [clearDistractionUI(page) EXCEPT !.enabled = FALSE, !.cleared = TRUE]
    /\ pageFrame

\* click on the banner's dismiss button
DismissClicked ==
    /\ ~page.closeTab
    /\ page.bannerEl
    /\ page' = [clearDistractionUI(page) EXCEPT !.cleared = TRUE]
    /\ pageFrame

\* the 5-minute timer set by applyDistractionUI fires
AutoClearFired ==
    /\ ~page.closeTab
    /\ page.autoClearTimer
    /\ page' = [clearDistractionUI(page) EXCEPT !.cleared = TRUE]
    /\ pageFrame

\* click on the banner's reset button: startResetSession(), injectResetOverlay()
startResetSession ==
    /\ ~page.closeTab
    /\ page.bannerEl
    /\ Len(page.countdowns) < MaxCountdowns
    /\ page' = [page EXCEPT !.bannerEl = FALSE, !.overlayEl = TRUE,
                            !.countdowns = Append(@, CountdownSecs), !.cleared = FALSE]
    /\ pageFrame

\* click on the overlay's skip button: its own interval is cleared
SkipClicked ==
    /\ ~page.closeTab
    /\ page.overlayEl
    /\ page' = [clearDistractionUI(page) EXCEPT
                   !.countdowns = SubSeq(@, 1, Len(@) - 1), !.closeTab = TRUE]
    /\ pageFrame

\* a second passes: the callback of every running interval runs
SecondPassed ==
    /\ ~page.closeTab
    /\ page.countdowns # << >>
    /\ LET left == [i \in 1..Len(page.countdowns) |-> page.countdowns[i] - 1]
           over == \E i \in 1..Len(left) : left[i] <= 0
       IN  page' = IF over
                   THEN [clearDistractionUI(page) EXCEPT
                            !.countdowns = SelectSeq(left, LAMBDA n : n > 0),
                            !.closeTab = TRUE]
                   ELSE [page EXCEPT !.countdowns = left]
    /\ pageFrame

NextContent ==
    \/ PageDistractionDetected
    \/ PageClearInterventions
    \/ \E e \in BOOLEAN : PageSetEnabled(e)
    \/ DismissClicked
    \/ AutoClearFired
    \/ startResetSession
    \/ SkipClicked
    \/ SecondPassed

SpecContent == Init /\ [][NextContent]_vars

\* ------------------------------------------------------------------------
\* Properties
\* ------------------------------------------------------------------------
Categories == { "PRODUCTIVE", "DISTRACTION", "UNKNOWN" }

\* distractionActive goes from false to true / from true to false in a step
Entered == ~distractionActive /\ distractionActive'
Left == distractionActive /\ ~distractionActive'

\* a step that runs the classifier and the hysteresis gate
GateStep ==
    \/ CycleStart /\ ~DwellFires(now, distractionDwellStart, distractionActive)
    \/ CycleAfterDwellSave

\* the extracted hostname classifyDomain works on
HostOf(url) == StripWww(UrlHostname(url))

\* C8: classifyDomain returns one of PRODUCTIVE, DISTRACTION, UNKNOWN for
\* every input and every content of the custom lists, never raising, and
\* returns UNKNOWN for a null, empty or unparseable URL.
C8_ClassifyDomainTotal ==
    /\ probeResult \in Categories
    /\ \A url \in ProbeUrls :
          LET r == ClassifyDomain(url, customProductive, customDistraction)
          IN  /\ r \in Categories
              /\ (url = NoUrl \/ url = << >> \/ ~UrlParses(url)) => r = "UNKNOWN"

\* C8 witness: an unparseable URL was classified UNKNOWN while both custom
\* lists hold entries
C8_Witness ==
    /\ probeUrl = << "coursera", ".", "org" >>
    /\ probeResult = "UNKNOWN"
    /\ customProductive # {}
    /\ customDistraction # {}

\* C9: a URL whose extracted hostname is in customDistraction is DISTRACTION,
\* and one whose hostname is in customProductive only is PRODUCTIVE, whatever
\* the built-in lists and the academic suffixes say.
C9_CustomOverridesBuiltin ==
    \A url \in ProbeUrls :
        (url # NoUrl /\ url # << >> /\ UrlParses(url)) =>
            LET r == ClassifyDomain(url, customProductive, customDistraction)
            IN  /\ HostOf(url) \in customDistraction => r = "DISTRACTION"
                /\ (HostOf(url) \in customProductive /\ HostOf(url) \notin customDistraction)
                      => r = "PRODUCTIVE"

\* C9 witness: a subdomain of a built-in productive domain listed as a custom
\* distraction was classified DISTRACTION, with a built-in distraction domain
\* listed as custom productive
C9_Witness ==
    /\ probeUrl = << "https", "://", "learn", ".", "coursera", ".", "org", "/", "browse" >>
    /\ probeResult = "DISTRACTION"
    /\ << "learn", "coursera", "org" >> \in customDistraction
    /\ << "youtube", "com" >> \in customProductive
    /\ ClassifyDomain(UrlDistraction, customProductive, customDistraction) = "PRODUCTIVE"

\* C10: recoverySignals < driftSignals for every mode of the threshold table,
\* and for the thresholds the engine uses in every reachable state.
C10_RecoveryBelowDrift ==
    /\ \A m \in DOMAIN MODE_THRESHOLDS :
          MODE_THRESHOLDS[m].recoverySignals < MODE_THRESHOLDS[m].driftSignals
    /\ ThresholdsOf(mode).recoverySignals < ThresholdsOf(mode).driftSignals

\* C10 witness: a scoring cycle has run in a mode other than the default
C10_Witness ==
    /\ mode = "casual"
    /\ classificationHistory # << >>

\* C1 as stated, for the shortest classification sequence: as long as no
\* scoring cycle has classified (the sequence is empty, so it holds no run of
\* CONFIRM_CYCLES values of either kind), distractionActive keeps its initial
\* value.
C1_Original == (streak.d = 0 /\ streak.n = 0) => ~distractionActive

\* C1 amended: the hysteresis gate sets distractionActive to true only when
\* the classification sequence ends with CONFIRM_CYCLES consecutive DISTRACTED
\* values, and to false only when it ends with CONFIRM_CYCLES consecutive
\* other values or the window was still empty before the cycle.
C1_GateNeedsRun ==
    [][ GateStep =>
          /\ Entered => streak'.d = CONFIRM_CYCLES
          /\ Left => (streak'.n = CONFIRM_CYCLES \/ classificationHistory = << >>) ]_vars

\* C1 witness: the first two cycles classified FOCUSED then DISTRACTED (no run
\* of either kind) and the gate left distractionActive false
C1_Witness ==
    /\ classificationHistory = << "FOCUSED", "DISTRACTED" >>
    /\ streak.d = 1
    /\ now = StepSecs
    /\ stats.distractionsDetected = 0
    /\ stats.resetSessions = 0
    /\ ~distractionActive
    /\ cyclePc = "idle"

\* the last entry of the confirmation window
LastOf(h) == h[Len(h)]

\* C2: while currentTabCategory is PRODUCTIVE the classifier returns FOCUSED
\* whatever the raw signals are, no step that ends on a PRODUCTIVE page sets
\* distractionActive from false to true, and a cycle run on a PRODUCTIVE page
\* pushes FOCUSED, so the window it leaves does not end a DISTRACTED streak.
C2_SafeZone ==
    [][ /\ currentTabCategory = "PRODUCTIVE" => CycleClassification = "FOCUSED"
        /\ currentTabCategory' = "PRODUCTIVE" => ~Entered
        /\ (GateStep /\ currentTabCategory = "PRODUCTIVE") =>
              /\ ~Entered
              /\ streak'.d = 0
              /\ classificationHistory' # << >> =>
                    LastOf(classificationHistory') = "FOCUSED" ]_vars

\* C2 witness: on a PRODUCTIVE page with the idle and jitter signals raised, a
\* cycle pushed FOCUSED behind a DISTRACTED entry and nothing was triggered
C2_Witness ==
    /\ currentTabCategory = "PRODUCTIVE"
    /\ CycleSignals.idle
    /\ CycleSignals.jitter
    /\ classificationHistory = << "DISTRACTED", "FOCUSED" >>
    /\ ~distractionActive
    /\ stats.distractionsDetected = 0
    /\ triggers = 0
    /\ cyclePc = "idle"

\* C3: a scoring cycle that starts while the engine is enabled, the page has
\* been a DISTRACTION page since distractionDwellStart, distractionActive is
\* false and now - distractionDwellStart >= 30 s sets distractionActive,
\* increments distractionsDetected and persists the stats before it yields,
\* and invokes the trigger when it resumes; a cycle that starts earlier does
\* not fire the override.
C3_DwellOverride ==
    [][ /\ (CycleStart /\ currentTabCategory = "DISTRACTION" /\ ~distractionActive) =>
              IF now - distractionDwellStart >= DISTRACTION_DWELL_SECS
              THEN /\ distractionActive'
                   /\ stats'.distractionsDetected = stats.distractionsDetected + 1
                   /\ storedStats' = stats'
                   /\ cyclePc' = "dwellSave"
                   /\ classificationHistory' = classificationHistory
              ELSE cyclePc' # "dwellSave"
        /\ CycleAfterDwellSave => triggers' = triggers + 1 ]_vars

\* C3 witness: the override has fired with a window that holds fewer than
\* CONFIRM_CYCLES entries, and its trigger is due
C3_Witness ==
    /\ cyclePc = "dwellSave"
    /\ distractionActive
    /\ currentTabCategory = "DISTRACTION"
    /\ now - distractionDwellStart >= DISTRACTION_DWELL_SECS
    /\ Len(classificationHistory) < CONFIRM_CYCLES
    /\ stats.distractionsDetected = 1

\* C4: in a cycle on an UNKNOWN page with no recent typing or scrolling,
\* distractionActive false and at least driftSignals raw signals true, the
\* classification is DISTRACTED; if the cycle before it was classified
\* DISTRACTED too, distractionActive becomes true, distractionsDetected grows
\* by exactly 1 and one trigger follows; if not, distractionActive stays false.
C4_TwoCyclesEnter ==
    [][ /\ ( /\ GateStep
             /\ currentTabCategory = "UNKNOWN"
             /\ ~contentSignals.isTypingRecently
             /\ ~contentSignals.isScrollingRecently
             /\ ~distractionActive
             /\ CountTrue(CycleSignals) >= ThresholdsOf(mode).driftSignals ) =>
              /\ streak'.d >= 1
              /\ LastOf(classificationHistory') = "DISTRACTED"
              /\ IF streak.d >= 1
                 THEN /\ distractionActive'
                      /\ stats'.distractionsDetected = stats.distractionsDetected + 1
                      /\ cyclePc' = "gateSave"
                 ELSE /\ ~distractionActive'
                      /\ stats' = stats
                      /\ cyclePc' = "idle"
        /\ CycleAfterGateSave => (triggers' = triggers + 1 /\ stats' = stats) ]_vars

\* C4 witness: idle for 15 s or more with two tab switches in the last minute
\* on an UNKNOWN page, two cycles classified DISTRACTED, the state entered
\* once and its trigger is due
C4_Witness ==
    /\ cyclePc = "gateSave"
    /\ currentTabCategory = "UNKNOWN"
    /\ CycleSignals = [idle |-> TRUE, tabSwitch |-> TRUE, backspace |-> FALSE, jitter |-> FALSE]
    /\ classificationHistory = << "DISTRACTED", "DISTRACTED" >>
    /\ distractionActive
    /\ stats.distractionsDetected = 1
    /\ triggers = 0

\* C5: a tab observation that changes the category from PRODUCTIVE to
\* DISTRACTION while distractionActive is false sets distractionActive,
\* increments the counter, persists the stats and invokes the trigger in the
\* same handler; any other category change leaves all of them alone.
C5_EdgeTrigger ==
    [][ currentTabCategory' # currentTabCategory =>
          IF /\ currentTabCategory = "PRODUCTIVE"
             /\ currentTabCategory' = "DISTRACTION"
             /\ ~distractionActive
          THEN /\ distractionActive'
               /\ stats'.distractionsDetected = stats.distractionsDetected + 1
               /\ storedStats' = stats'
               /\ triggers' = triggers + 1
          ELSE /\ distractionActive' = distractionActive
               /\ stats' = stats
               /\ triggers' = triggers ]_vars

\* C5 witness: the edge trigger has fired, at the moment of the observation and
\* with an empty confirmation window
C5_Witness ==
    /\ previousTabCategory = "PRODUCTIVE"
    /\ currentTabCategory = "DISTRACTION"
    /\ distractionActive
    /\ distractionDwellStart = now
    /\ classificationHistory = << >>
    /\ stats.distractionsDetected = 1
    /\ triggers = 1

\* the triggers a suspended scoring cycle still owes
TriggersDue == IF cyclePc = "idle" THEN 0 ELSE 1

\* C6: every change of distractionActive from false to true increments
\* distractionsDetected by exactly 1 and persists the stats in the same step,
\* distractionsDetected changes in no other step, and every increment is
\* matched by exactly one triggerDistraction invocation, made in the same
\* handler or owed by the scoring cycle suspended at saveStats.
C6_EntryEffects ==
    /\ [](stats.distractionsDetected = triggers + TriggersDue)
    /\ [][ /\ Entered =>
                /\ stats'.distractionsDetected = stats.distractionsDetected + 1
                /\ storedStats' = stats'
                /\ triggers' + (IF cyclePc' = "idle" THEN 0 ELSE 1)
                      = triggers + TriggersDue + 1
           /\ stats'.distractionsDetected # stats.distractionsDetected => Entered
           /\ triggers' \in {triggers, triggers + 1} ]_vars

\* C6 witness: distractionActive was entered by the edge trigger and later by a
\* scoring cycle, two detections are counted and persisted, both triggers made
C6_Witness ==
    /\ stats.distractionsDetected = 2
    /\ storedStats.distractionsDetected = 2
    /\ triggers = 2
    /\ cyclePc = "idle"
    /\ distractionActive
    /\ currentTabCategory = "UNKNOWN"

\* C7 as stated: right after a recovery (the window is empty and the last
\* cycle was not DISTRACTED) no step sets distractionActive to true.
C7_Original ==
    [][ (classificationHistory = << >> /\ streak.n > 0) => ~Entered ]_vars

\* C7 amended: a recovery in a scoring cycle leaves the window empty, and the
\* confirmation gate sets distractionActive to true only after
\* CONFIRM_CYCLES consecutive DISTRACTED cycles that all follow the last
\* recovery; the PRODUCTIVE -> DISTRACTION edge trigger can set it earlier.
C7_RecoveryClearsWindow ==
    [][ GateStep =>
          /\ Left => (classificationHistory' = << >> /\ streak'.d = 0)
          /\ Entered =>
                /\ ConfirmedDistracted(classificationHistory')
                /\ Len(classificationHistory) >= CONFIRM_CYCLES - 1
                /\ streak.d >= CONFIRM_CYCLES - 1 ]_vars

\* C7 witness: a recovery has just fired in a scoring cycle (the window is
\* empty although a cycle has classified) and left distractionActive false
C7_Witness ==
    /\ classificationHistory = << >>
    /\ streak.n > 0
    /\ streak.d = 0
    /\ ~distractionActive
    /\ stats.distractionsDetected = 1
    /\ cyclePc = "idle"

\* C11: classifyActivity returns DISTRACTED for the category DISTRACTION and
\* FOCUSED for the category PRODUCTIVE, for every raw signal set, context and
\* threshold row.
C11_CategoryForcesLabel ==
    caLabel # "PENDING" =>
        /\ caArgs.currentCategory = "DISTRACTION" => caLabel = "DISTRACTED"
        /\ caArgs.currentCategory = "PRODUCTIVE" => caLabel = "FOCUSED"

\* C11 witness: active typing with no raw signal on a DISTRACTION page was
\* classified DISTRACTED
C11_Witness ==
    /\ caArgs.currentCategory = "DISTRACTION"
    /\ caArgs.context.isTypingRecently
    /\ CountTrue(caArgs.rawSignals) = 0
    /\ caLabel = "DISTRACTED"

\* everything but the display score and its decay bookkeeping
scoreFreeVars ==
    << now, enabled, mode, tabSwitches, isIdle, idleStartTime, contentSignals,
       classificationHistory, previousTabCategory, currentTabCategory,
       distractionDwellStart, distractionTabId, distractionActive, stats,
       storedStats, cyclePc, pendingGet, triggers, streak, domainVars, prefVars,
       caArgs, caLabel >>

\* a scoring cycle reaches the classifier and the gate in this step
ReachesGate == (CycleStart /\ cyclePc' # "dwellSave") \/ CycleAfterDwellSave

C14_DecayNeverIncreases ==
    [][ decayScore =>
          /\ distractionScore' >= 0
          /\ ScoreLeq(0, 0, distractionScore', scoreDecaySecs')
          /\ ScoreLeq(distractionScore', scoreDecaySecs', distractionScore, scoreDecaySecs)
          /\ lastScoreDecay' = now ]_vars

\* C14 witness: with the engine enabled and not distracted, a decay tick 15 s
\* after the last one has brought a score of 5 down to 5 * 0.5^(15/30)
C14_Witness ==
    /\ enabled
    /\ ~distractionActive
    /\ distractionScore = 5
    /\ scoreDecaySecs = StepSecs
    /\ ~ScoreLeq(5, 0, distractionScore, scoreDecaySecs)
    /\ lastScoreDecay = now

\* C13 as stated, for the running engine: while no new signals arrive (the
\* raw signals of a scoring cycle are all false, or sum to the score they
\* gave before), the score is score0 * 0.5^(t/30000), so a scoring cycle
\* leaves the decayed score as it is.
C13_Original ==
    [][ ( /\ ReachesGate
          /\ distractionScore > 0
          /\ RawScore(CycleSignals) \in {0, distractionScore} ) =>
            ScoreEq(distractionScore', scoreDecaySecs', distractionScore, scoreDecaySecs) ]_vars

\* the fields of state
sessionState ==
    << enabled, mode, tabSwitches, isIdle, idleStartTime, distractionScore,
       scoreDecaySecs, lastScoreDecay, contentSignals, classificationHistory,
       previousTabCategory, currentTabCategory, distractionDwellStart,
       distractionTabId, distractionActive, stats >>

\* C15 as stated: between the first and the last state access of one
\* runScoringCycle invocation, and of one tab-activation handler invocation,
\* no other handler changes the session state: every step taken while such
\* an invocation is under way, other than its own, leaves state alone.
C15_Original ==
    [][ /\ (cyclePc # "idle" /\ cyclePc' = cyclePc) => UNCHANGED sessionState
        /\ (pendingGet # NoTab /\ pendingGet' = pendingGet) => UNCHANGED sessionState ]_vars

\* the fields that capture and classification write
captureFields ==
    << tabSwitches, isIdle, idleStartTime, contentSignals, classificationHistory,
       previousTabCategory, currentTabCategory, distractionDwellStart,
       distractionTabId >>

\* a step of a runScoringCycle invocation
CycleStep == CycleStart \/ CycleAfterDwellSave \/ CycleAfterGateSave

\* C16 as stated: while enabled is false no step changes tabSwitches, the
\* idle fields, the tab categories, the dwell timestamp, contentSignals or
\* the confirmation window, no step of runScoringCycle changes any field of
\* state, and distractionActive does not become true; and a SET_ENABLED
\* message leaves stats and the custom domain lists, in memory and persisted,
\* unchanged.
C16_Original ==
    [][ /\ ~enabled => (UNCHANGED captureFields /\ ~Entered)
        /\ (~enabled /\ CycleStep) => UNCHANGED sessionState
        /\ enabled' # enabled =>
              UNCHANGED << stats, storedStats, customProductive, customDistraction,
                           storedCustom >> ]_vars

\* C17 as stated: right after a SET_ENABLED message that turns the engine on
\* again, tabSwitches and classificationHistory are empty, isIdle is false,
\* distractionDwellStart is null and distractionActive is false.
C17_Original ==
    [][ (~enabled /\ enabled') =>
          /\ tabSwitches' = << >>
          /\ classificationHistory' = << >>
          /\ ~isIdle'
          /\ distractionDwellStart' = NoTime
          /\ ~distractionActive' ]_vars

\* C18 as stated: a restart at any moment leaves every ephemeral field at its
\* default, and enabled, mode, the custom lists and the three stats counters
\* with the values they had in memory before it (the day is the same).
C18_Original ==
    [][ Restart =>
          /\ tabSwitches' = << >>
          /\ classificationHistory' = << >>
          /\ ~isIdle'
          /\ idleStartTime' = NoTime
          /\ distractionDwellStart' = NoTime
          /\ previousTabCategory' = "UNKNOWN"
          /\ currentTabCategory' = "UNKNOWN"
          /\ ~distractionActive'
          /\ distractionScore' = 0
          /\ enabled' = enabled
          /\ mode' = mode
          /\ customProductive' = customProductive
          /\ customDistraction' = customDistraction
          /\ stats'.distractionsDetected = stats.distractionsDetected
          /\ stats'.resetSessions = stats.resetSessions
          /\ stats'.totalIdleSeconds = stats.totalIdleSeconds ]_vars

\* C20: init() with a persisted key missing uses the default for it: enabled
\* true, mode 'deep-work', an empty custom list, and for stats zero counters
\* stamped with today's date, which are saved under the 'stats' key then.
C20_MissingKeysDefault ==
    [][ Restart =>
          /\ "enabled" \notin storedKeys => enabled' = TRUE
          /\ "focusMode" \notin storedKeys => mode' = "deep-work"
          /\ "customProductive" \notin storedKeys => customProductive' = {}
          /\ "customDistraction" \notin storedKeys => customDistraction' = {}
          /\ "stats" \notin storedKeys =>
                /\ stats' = [ date |-> Today, distractionsDetected |-> 0,
                              resetSessions |-> 0, totalIdleSeconds |-> 0 ]
                /\ storedStats' = stats'
                /\ "stats" \in storedKeys' ]_vars

\* C20 witness: init() has run on a storage with no key set: the defaults are
\* in force and the fresh stats are the one key stored
C20_Witness ==
    /\ storedKeys = {"stats"}
    /\ storedStats = InitialStats
    /\ stats = InitialStats
    /\ enabled
    /\ mode = "deep-work"
    /\ customProductive = {}
    /\ customDistraction = {}
    /\ ~storedEnabled
    /\ storedMode = "casual"

\* C19: a triggerDistraction call whose target tab no longer exists, or has
\* no URL or one that starts with chrome:// or edge://, sends no
\* DISTRACTION_DETECTED message and ends without an error (it is NOT_FOUND
\* or SKIPPED, one chrome.tabs.get and nothing after it), and no call
\* changes a field of the session state.
C19_TriggerSkips ==
    [][ TriggerProbe =>
          /\ UNCHANGED sessionState
          /\ LET target == TargetTab(distractionTabId, tdArgs)
             IN  target # NoTab =>
                   /\ ~tdArgs.tabs[target].exists => tdResult' = "NOT_FOUND"
                   /\ ( /\ tdArgs.tabs[target].exists
                        /\ \/ tdArgs.tabs[target].url \in {NoUrl, << >>}
                           \/ tdArgs.tabs[target].url[1] \in {"chrome", "edge"} ) =>
                         tdResult' = "SKIPPED" ]_vars

\* C19 witness: the distraction tab now shows an edge:// page and the call
\* skipped it
C19_Witness ==
    /\ distractionTabId = 1
    /\ tdArgs.tabs[1] = [ exists |-> TRUE, url |-> UrlEdge ]
    /\ tdResult = "SKIPPED"

\* C21 as stated: a scoring tick in which saveStats() rejects leaves
\* distractionActive, stats and classificationHistory exactly as they were
\* before the tick.
C21_Original ==
    [][ CycleSaveRejects =>
          UNCHANGED << distractionActive, stats, classificationHistory >> ]_vars

\* C22 as stated: the counters persisted under a date hold no event counted
\* on an earlier day: when the stored day-stamp changes, the stored counters
\* are those of the step that stored them, one event at most.
C22_Original ==
    [][ storedStats'.date # storedStats.date =>
          /\ storedStats'.distractionsDetected + storedStats'.resetSessions <= 1
          /\ storedStats'.totalIdleSeconds = 0 ]_vars

C24_TriggerTargets ==
    [][ TriggerProbe =>
          LET open(t) == /\ tdArgs.tabs[t].exists
                         /\ tdArgs.tabs[t].url \notin {NoUrl, << >>}
                         /\ tdArgs.tabs[t].url[1] \notin {"chrome", "edge"}
          IN  IF distractionTabId # NoTab
              THEN tdMessage' = IF open(distractionTabId)
                                THEN [ to |-> distractionTabId, mode |-> mode ]
                                ELSE NoMessage
              ELSE tdMessage' = IF tdArgs.activeTab # NoTab /\ open(tdArgs.activeTab)
                                THEN [ to |-> tdArgs.activeTab, mode |-> mode ]
                                ELSE NoMessage ]_vars

\* C24 witness: in casual mode the distraction tab received the message
\* while another tab, open on a web page, was the active one
C24_Witness ==
    /\ distractionTabId = 1
    /\ tdArgs.activeTab = 2
    /\ tdArgs.tabs[2] = [ exists |-> TRUE, url |-> UrlDistraction ]
    /\ tdResult = "SENT"
    /\ tdMessage = [ to |-> 1, mode |-> "casual" ]

\* C25: for every URL that parses, classifyDomain is the label of the first
\* rule that matches the hostname without its leading "www.": in
\* customDistraction; in customProductive; in the built-in distraction list;
\* a built-in productive domain or a name ending in "." and such a domain; a
\* name ending in .edu, .ac.in, .ac.uk or .gov; anything (UNKNOWN).  So a host
\* in both custom lists is DISTRACTION, a built-in distraction host outside
\* the custom lists is never PRODUCTIVE, and a subdomain of a built-in
\* distraction domain is DISTRACTION only as a custom entry.
C25_PriorityRules ==
    \A url \in ProbeUrls :
        (url # NoUrl /\ url # << >> /\ UrlParses(url)) =>
            LET host == HostOf(url)
                r == ClassifyDomain(url, customProductive, customDistraction)
                under(dom) == \E k \in 1..(Len(host) - 1) : SubSeq(host, k + 1, Len(host)) = dom
                rules == << [ hit |-> host \in customDistraction, label |-> "DISTRACTION" ],
                            [ hit |-> host \in customProductive, label |-> "PRODUCTIVE" ],
                            [ hit |-> host \in BUILTIN_DISTRACTION, label |-> "DISTRACTION" ],
                            [ hit |-> \E d \in BUILTIN_PRODUCTIVE : host = d \/ under(d),
                              label |-> "PRODUCTIVE" ],
                            [ hit |-> under(<< "edu" >>) \/ under(<< "ac", "in" >>)
                                      \/ under(<< "ac", "uk" >>) \/ under(<< "gov" >>),
                              label |-> "PRODUCTIVE" ],
                            [ hit |-> TRUE, label |-> "UNKNOWN" ] >>
                first == CHOOSE i \in 1..6 : rules[i].hit /\ \A j \in 1..(i - 1) : ~rules[j].hit
            IN  /\ r = rules[first].label
                /\ (host \in customDistraction /\ host \in customProductive) => r = "DISTRACTION"
                /\ (host \in BUILTIN_DISTRACTION /\ host \notin customProductive)
                      => r = "DISTRACTION"
                /\ ((\E d \in BUILTIN_DISTRACTION : under(d)) /\ host \notin customDistraction)
                      => r # "DISTRACTION"

\* C25 witness: with youtube.com in both custom lists, m.youtube.com was
\* classified UNKNOWN and www.youtube.com is DISTRACTION
C25_Witness ==
    /\ probeUrl = << "https", "://", "m", ".", "youtube", ".", "com" >>
    /\ probeResult = "UNKNOWN"
    /\ << "youtube", "com" >> \in customDistraction
    /\ << "youtube", "com" >> \in customProductive
    /\ ClassifyDomain(UrlDistraction, customProductive, customDistraction) = "DISTRACTION"

\* the six labels of classifyActivity
ActivityLabels == { "DEEP_FOCUS", "READING", "WORKING", "DISTRACTED", "UNCERTAIN", "FOCUSED" }

\* C26: for the category UNKNOWN and every raw signal set, context and
\* threshold row, classifyActivity is the first match of the ordered rules
\* (typing, no tabSwitch, no backspace: DEEP_FOCUS; scrolling below 150 px/s,
\* no tabSwitch: READING; typing and backspace: WORKING; activeCount >=
\* driftSignals: DISTRACTED; activeCount = 1: UNCERTAIN; else FOCUSED), where
\* typing clears idle and jitter, scrolling below 150 px/s clears idle, and
\* activeCount is the number of signals left plus one when the velocity is
\* above 600 px/s and tabSwitch is true; every result is one of the six labels.
C26_OrderedRules ==
    caLabel # "PENDING" =>
        /\ caLabel \in ActivityLabels
        /\ caArgs.currentCategory = "UNKNOWN" =>
             LET raw == caArgs.rawSignals
                 typing == caArgs.context.isTypingRecently
                 slow == /\ caArgs.context.isScrollingRecently
                         /\ caArgs.context.scrollVelocity < ReadingVelocity
                 cleared == (IF typing THEN {"idle", "jitter"} ELSE {})
                            \cup (IF slow THEN {"idle"} ELSE {})
                 left == { k \in {"idle", "tabSwitch", "backspace", "jitter"} : raw[k] } \ cleared
                 activeCount == Cardinality(left)
                                + (IF caArgs.context.scrollVelocity > AimlessVelocity
                                      /\ "tabSwitch" \in left THEN 1 ELSE 0)
                 rules == << [ hit |-> typing /\ ~raw.tabSwitch /\ ~raw.backspace,
                               label |-> "DEEP_FOCUS" ],
                             [ hit |-> slow /\ ~raw.tabSwitch, label |-> "READING" ],
                             [ hit |-> typing /\ raw.backspace, label |-> "WORKING" ],
                             [ hit |-> activeCount >= caArgs.thresholds.driftSignals,
                               label |-> "DISTRACTED" ],
                             [ hit |-> activeCount = 1, label |-> "UNCERTAIN" ],
                             [ hit |-> TRUE, label |-> "FOCUSED" ] >>
                 first == CHOOSE i \in 1..6 : rules[i].hit /\ \A j \in 1..(i - 1) : ~rules[j].hit
             IN  caLabel = rules[first].label

\* C26 witness: tabSwitch alone, at a scroll velocity above 600 px/s and with
\* no recent scrolling flag, was classified DISTRACTED on an UNKNOWN page
C26_Witness ==
    /\ caArgs.currentCategory = "UNKNOWN"
    /\ caArgs.rawSignals = [idle |-> FALSE, tabSwitch |-> TRUE, backspace |-> FALSE, jitter |-> FALSE]
    /\ caArgs.context = [isTypingRecently |-> FALSE, isScrollingRecently |-> FALSE, scrollVelocity |-> 700]
    /\ caLabel = "DISTRACTED"

\* C27: on an UNKNOWN page a call with isTypingRecently returns the label it
\* returns for each of the four values of the raw idle and jitter signals, a
\* call with isScrollingRecently and a velocity below 150 px/s returns the
\* label it returns for both values of idle, and no call changes the
\* rawSignals object it was given.
C27_SuppressionIndependence ==
    [][ ClassifyProbe =>
          /\ caArgs'.rawSignals = caArgs.rawSignals
          /\ caArgs.currentCategory = "UNKNOWN" =>
               LET label(raw) == classifyActivity(raw, caArgs.context, caArgs.thresholds, "UNKNOWN")
               IN  /\ caArgs.context.isTypingRecently =>
                         \A i, j \in BOOLEAN :
                            label([caArgs.rawSignals EXCEPT !.idle = i, !.jitter = j]) = caLabel'
                   /\ ( /\ caArgs.context.isScrollingRecently
                        /\ caArgs.context.scrollVelocity < ReadingVelocity ) =>
                         \A i \in BOOLEAN :
                            label([caArgs.rawSignals EXCEPT !.idle = i]) = caLabel' ]_vars

\* C27 witness: typing with tabSwitch, idle and jitter raised was classified
\* UNCERTAIN, the one signal left being tabSwitch, and the raw signals are
\* as passed
C27_Witness ==
    /\ caArgs.currentCategory = "UNKNOWN"
    /\ caArgs.context = [isTypingRecently |-> TRUE, isScrollingRecently |-> FALSE, scrollVelocity |-> 0]
    /\ caArgs.rawSignals = [idle |-> TRUE, tabSwitch |-> TRUE, backspace |-> FALSE, jitter |-> TRUE]
    /\ caLabel = "UNCERTAIN"

\* C28: the rawSignals object a scoring cycle builds has idle true exactly
\* when the user is idle and has been for at least mode.idleSecs, tabSwitch
\* true exactly when at least mode.tabSwitchPerMin of the kept tab-switch
\* timestamps are newer than now - 60 s, backspace true exactly when the
\* backspace ratio is above 0.25, and jitter true exactly when the mouse
\* jitter is above 5, with the threshold row of the current mode.
C28_RawSignalsExact ==
    [][ RawProbe =>
          LET row == MODE_THRESHOLDS[mode]
              recent == { i \in 1..Len(tabSwitches) : now - tabSwitches[i] < SwitchWindowSecs }
          IN  /\ rsResult'.idle <=> (isIdle /\ now - idleStartTime >= row.idleSecs)
              /\ rsResult'.tabSwitch <=> (Cardinality(recent) >= row.tabSwitchPerMin)
              /\ rsResult'.backspace <=> ~(contentSignals.backspaceRatio <= BackspacePctLimit)
              /\ rsResult'.jitter <=> ~(contentSignals.mouseJitter <= JitterLimit) ]_vars

\* C28 witness: in deep-work mode, idle for a minute, with the two kept tab
\* switches exactly a minute old and the content values on their limits, the
\* cycle would see idle alone
C28_Witness ==
    /\ mode = "deep-work"
    /\ isIdle
    /\ now - idleStartTime = SwitchWindowSecs
    /\ Len(tabSwitches) = MODE_THRESHOLDS["deep-work"].tabSwitchPerMin
    /\ \A i \in 1..Len(tabSwitches) : now - tabSwitches[i] = SwitchWindowSecs
    /\ contentSignals = BoundarySignals
    /\ rsResult = [idle |-> TRUE, tabSwitch |-> FALSE, backspace |-> FALSE, jitter |-> FALSE]

\* C29: in every reachable state the display score is between 0 and 10, and
\* the step of an enabled scoring cycle that reaches the classifier sets it
\* to min(10, 2 idle + 3 tabSwitch + 2 backspace + 3 jitter) over the raw
\* signals of that cycle, decayed by nothing, whatever it was before.
C29_ScoreBounded ==
    /\ [](/\ distractionScore \in 0..ScoreCap
          /\ ScoreLeq(0, 0, distractionScore, scoreDecaySecs)
          /\ ScoreLeq(distractionScore, scoreDecaySecs, ScoreCap, 0))
    /\ [][ ReachesGate =>
             LET w(b, weight) == IF b THEN weight ELSE 0
                 sum == w(CycleSignals.idle, 2) + w(CycleSignals.tabSwitch, 3)
                        + w(CycleSignals.backspace, 2) + w(CycleSignals.jitter, 3)
             IN  /\ distractionScore' = (IF sum > 10 THEN 10 ELSE sum)
                 /\ scoreDecaySecs' = 0 ]_vars

\* C29 witness: a cycle has just run with all four raw signals true and set
\* the score to 10
C29_Witness ==
    /\ CountTrue(CycleSignals) = 4
    /\ distractionScore = 10
    /\ scoreDecaySecs = 0
    /\ Len(classificationHistory) = CONFIRM_CYCLES
    /\ lastScoreDecay = now

\* a step in which the second invocation reaches the classifier and the gate
OverlapReachesGate ==
    (OverlapStart /\ overlapPc' # "dwellSave") \/ OverlapAfterDwellSave

\* C30 as stated: every cycle that reaches the classifier leaves the window
\* holding the most recent classifications in order: what it held, then the
\* new classification, less the oldest entry when that makes three.
C30_Original ==
    [][ (ReachesGate \/ OverlapReachesGate) =>
          LET p == classificationHistory \o << CycleClassification >>
          IN  classificationHistory' = SubSeq(p, Len(p) - Min(Len(p), CONFIRM_CYCLES) + 1, Len(p))
      ]_vars

\* C30, amended: the window never holds more than CONFIRM_CYCLES entries, with
\* one or two invocations of the scoring cycle in flight, and every cycle that
\* reaches the classifier leaves it holding what it held, then the new
\* classification, less the oldest entry when that makes three, unless the
\* cycle leaves the distracted state, which leaves it empty.
C30_WindowBounded ==
    /\ [](Len(classificationHistory) <= CONFIRM_CYCLES)
    /\ [][ (ReachesGate \/ OverlapReachesGate) =>
             LET p == classificationHistory \o << CycleClassification >>
             IN  classificationHistory' =
                    IF Left THEN << >>
                    ELSE SubSeq(p, Len(p) - Min(Len(p), CONFIRM_CYCLES) + 1, Len(p)) ]_vars

\* C30 witness: while the first invocation still awaits the saveStats of the
\* dwell override, and before any trigger was sent, an overlapping tick has
\* pushed DISTRACTED behind the FOCUSED of an earlier cycle
C30_Witness ==
    /\ cyclePc = "dwellSave"
    /\ overlapPc = "idle"
    /\ triggers = 0
    /\ distractionActive
    /\ classificationHistory = << "FOCUSED", "DISTRACTED" >>
    /\ streak.d = 1

\* C31: in a scoring cycle, with w the window after the push, the gate turns
\* distractionActive from false to true exactly when w is full and holds
\* DISTRACTED only, from true to false exactly when w holds no DISTRACTED
\* (whatever its length), and otherwise leaves distractionActive as it was
\* and the window equal to w.
C31_GateGuards ==
    [][ ReachesGate =>
          LET p == classificationHistory \o << CycleClassification >>
              w == IF Len(p) > CONFIRM_CYCLES THEN SubSeq(p, 2, Len(p)) ELSE p
              full == Len(w) = CONFIRM_CYCLES /\ { w[i] : i \in 1..Len(w) } = { "DISTRACTED" }
              clean == "DISTRACTED" \notin { w[i] : i \in 1..Len(w) }
          IN  /\ Entered <=> (~distractionActive /\ full)
              /\ Left <=> (distractionActive /\ clean)
              /\ (~Entered /\ ~Left) =>
                    /\ distractionActive' = distractionActive
                    /\ classificationHistory' = w ]_vars

\* C31 witness: after an entry by the edge trigger, with an empty window, the
\* first cycle classified a quiet unknown page and the gate left the
\* distracted state on a window of one entry
C31_Witness ==
    /\ ~distractionActive
    /\ stats.distractionsDetected = 1
    /\ triggers = 1
    /\ streak = [d |-> 0, n |-> 1]
    /\ classificationHistory = << >>
    /\ currentTabCategory = "UNKNOWN"
    /\ stats.resetSessions = 0
    /\ mode = "deep-work"
    /\ storedMode = "deep-work"

\* C32: in every reachable state distractionDwellStart is set exactly when
\* currentTabCategory is DISTRACTION; a step that changes the category into
\* DISTRACTION sets it to the time of the observation, a step that changes
\* the category to anything else clears it, and a step that keeps the
\* category DISTRACTION leaves it as it was.
C32_DwellStartTracksCategory ==
    /\ []((distractionDwellStart # NoTime) <=> (currentTabCategory = "DISTRACTION"))
    /\ [][ IF currentTabCategory' = currentTabCategory
           THEN distractionDwellStart' = distractionDwellStart
           ELSE IF currentTabCategory' = "DISTRACTION"
           THEN distractionDwellStart' = now
           ELSE distractionDwellStart' = NoTime ]_vars

\* C32 witness: the page was a distraction, then the category changed to
\* UNKNOWN and the timestamp was cleared, the distraction tab id staying
C32_Witness ==
    /\ previousTabCategory = "DISTRACTION"
    /\ currentTabCategory = "UNKNOWN"
    /\ distractionDwellStart = NoTime
    /\ distractionTabId = 1
    /\ now = MaxTime

\* C33: right after a tab-activation handler run, tabSwitches holds exactly
\* the recorded activation times that are newer than now - 60 s, the new one
\* last, in non-decreasing order; and the tabSwitch signal of a cycle counts
\* the recorded activations newer than now - 60 s only, whatever older
\* entries tabSwitches still holds.
C33_SlidingWindow ==
    [][ /\ (\E tabId \in TabIds : TabActivated(tabId)) =>
             LET kept == { i \in 1..Len(activations') : now - activations'[i] < SwitchWindowSecs }
                 first == Len(activations') - Cardinality(kept) + 1
             IN  /\ kept = first..Len(activations')
                 /\ tabSwitches' = SubSeq(activations', first, Len(activations'))
                 /\ tabSwitches'[Len(tabSwitches')] = now
                 /\ \A i \in 1..(Len(tabSwitches') - 1) : tabSwitches'[i] <= tabSwitches'[i + 1]
        /\ RawProbe =>
             LET fresh == { i \in 1..Len(activations) : now - activations[i] < SwitchWindowSecs }
             IN  rsResult'.tabSwitch <=> (Cardinality(fresh) >= MODE_THRESHOLDS[mode].tabSwitchPerMin)
      ]_vars

\* C33 witness: an activation a minute after an earlier one has pruned it,
\* and a minute later (the user idle since that activation) the cycle would
\* count no recent switch although the entry, now a minute old itself, is
\* still stored
C33_Witness ==
    /\ Len(activations) = 2
    /\ activations[2] - activations[1] = SwitchWindowSecs
    /\ tabSwitches = << activations[2] >>
    /\ now - activations[2] = SwitchWindowSecs
    /\ mode = "deep-work"
    /\ pendingGet = NoTab
    /\ isIdle
    /\ idleStartTime = activations[2]
    /\ rsResult.idle
    /\ ~rsResult.tabSwitch

C35_ResetAndModeFrame ==
    /\ [][ /\ ResetSessionStarted => stats'.resetSessions = stats.resetSessions + 1
           /\ (ResetSessionStarted \/ \E m \in SentModes : SetMode(m)) =>
                /\ ~distractionActive'
                /\ distractionScore' = 0
                /\ scoreDecaySecs' = 0
                /\ classificationHistory' = classificationHistory
                /\ distractionDwellStart' = distractionDwellStart
                /\ distractionTabId' = distractionTabId
                /\ previousTabCategory' = previousTabCategory
                /\ currentTabCategory' = currentTabCategory
                /\ tabSwitches' = tabSwitches
                /\ isIdle' = isIdle
                /\ idleStartTime' = idleStartTime
                /\ stats'.totalIdleSeconds = stats.totalIdleSeconds
                /\ stats'.distractionsDetected = stats.distractionsDetected ]_vars
    /\ []( (~enabled /\ Budget) =>
             /\ stats.resetSessions < MaxResets => ENABLED ResetSessionStarted
             /\ \A m \in SentModes : ENABLED SetMode(m) )

\* a tab change raised the flag and sent the intervention, a reset session has
\* been counted and the extension is switched off: the flag and the score are
\* down, while the window, the dwell start and the distraction tab still tell
\* of the distraction
C35_Witness ==
    /\ ~enabled
    /\ ~distractionActive
    /\ distractionScore = 0
    /\ stats.resetSessions = 1
    /\ stats.distractionsDetected = 1
    /\ triggers = 1
    /\ classificationHistory = << "DISTRACTED" >>
    /\ currentTabCategory = "DISTRACTION"
    /\ distractionDwellStart # NoTime
    /\ distractionTabId # NoTab
    /\ mode = "deep-work"
    /\ storedMode = "deep-work"
    /\ cyclePc = "idle"

\* C36 as stated: when chrome.idle reports "active" again, totalIdleSeconds
\* grows by the seconds passed since the user left "active", whether the time
\* away was reported as "idle", as "locked" or as one after the other; while
\* the user is away the idle signal of a scoring cycle is measured from the
\* moment the user left "active"; and totalIdleSeconds never decreases.
C36_IdleAccounting ==
    /\ [][ IdleStateChanged("active") =>
             stats'.totalIdleSeconds = stats.totalIdleSeconds + (now - away.since) ]_vars
    /\ [][ RawProbe =>
             ( rsResult'.idle <=>
                 /\ away.state # "active"
                 /\ now - away.since >= MODE_THRESHOLDS[mode].idleSecs ) ]_vars
    /\ [][ stats'.totalIdleSeconds >= stats.totalIdleSeconds ]_vars

\* C37 as stated: once clearDistractionUI has run by a dismiss, by
\* CLEAR_INTERVENTIONS, by SET_ENABLED{false} or by the 5-minute timer, the
\* content script sends no CLOSE_TAB unless a reset session was started after
\* that; and a countdown runs only while the overlay it was started with is
\* in the page.
C37_NoCloseAfterClear ==
    /\ [][ (~page.closeTab /\ page'.closeTab) => ~page.cleared ]_vars
    /\ [](page.countdowns # << >> => (page.overlayEl /\ Len(page.countdowns) = 1))

============================================================================
